---- MODULE Spec2Model ----
(***************************************************************************)
(* Model of the EPT3 question generator: the "Generate Batch" handler of   *)
(* streamlit_app.py (Sequential Batch 3-call pipeline, Segmented 2-call    *)
(* and Holistic 1-call loops, final assembly, session update) and the      *)
(* helpers of prompt_engineer.py it uses.                                  *)
(*                                                                         *)
(* Text is modelled as a sequence of one-character strings, so that        *)
(* str.replace and list.index are computed as Python computes them.        *)
(* JSON objects are functions from key names to text; a key that is        *)
(* missing from the object is missing from the function's domain.          *)
(***************************************************************************)
EXTENDS Integers, Sequences, FiniteSets, TLC

VARIABLES
    \* st.session_state (streamlit_app.py:313-324)
    last_batch, last_batch_strategy,
    sequential_stage1_data, sequential_stage2_data, sequential_stage3_data,
    debug_logs,
    \* locals of the Generate Batch handler (streamlit_app.py:411-430)
    pc, job_list, index,
    stage1_data_list, stage2_data_list, stage3_data_list,
    generated_questions,
    \* the handler's exchanges with the outside, in order: prompts sent to
    \* llm_service.call_llm, what came back for each, messages shown with st.error
    llm_calls, llm_responses, errors,
    \* a helper of prompt_engineer.py or the planner called on its own: the
    \* call with its arguments, and what it returned (None before it returns)
    call, returned,
    \* history of the session: how many batch runs were started in it, and
    \* the run that last assigned each key of st.session_state (0: none did)
    run, written_by

vars == <<last_batch, last_batch_strategy,
          sequential_stage1_data, sequential_stage2_data, sequential_stage3_data,
          debug_logs, pc, job_list, index,
          stage1_data_list, stage2_data_list, stage3_data_list,
          generated_questions, llm_calls, llm_responses, errors,
          call, returned, run, written_by>>

\* the variables of a helper called on its own
helpers == <<call, returned>>

session == <<last_batch, last_batch_strategy,
             sequential_stage1_data, sequential_stage2_data, sequential_stage3_data,
             written_by>>

----------------------------------------------------------------------------
(* Bounds *)

\* largest batch size offered (the code offers 1, 2, 5, ... 50)
MaxJobs == 2
\* longest record array an LLM response carries
MaxRecs == 2
\* longest focus selection handed to the planner
MaxFoci == 2
\* most batch runs started in one session
MaxRuns == 3

\* longest vocabulary item drawn for get_initial_letter
MaxItemLen == 4

\* most rows of a vocabulary table, and largest max_items asked of a selection
MaxRows == 5
MaxItems == 2

\* most rows of an example bank
MaxBankRows == 3

\* longest Complete Sentence / Correct Answer drawn for the assembler
MaxSentenceLen == 3
MaxAnswerLen == 2

\* max_items of both selection runs and the size of the candidate pool
\* (prompt_engineer.py:335, 343, 347)
MaxPerSelection == 4
TargetPool == 8

----------------------------------------------------------------------------
(* Text *)

Chars == {"a", "b"}

\* all texts over Chars of length at most n
TextUpTo(n) == UNION {[1..k -> Chars] : k \in 0..n}

EmptyText == <<>>

\* the blank marker "____" of streamlit_app.py:556
BlankMarker == <<"_", "_", "_", "_">>

\* does text s start with text t
StartsWith(s, t) == Len(s) >= Len(t) /\ SubSeq(s, 1, Len(t)) = t

\* Python's `t in s` for strings
Contains(s, t) == \E i \in 0..(Len(s) - Len(t)) : SubSeq(s, i + 1, i + Len(t)) = t

\* str.replace(old, new, count): replaces at most `count` non-overlapping
\* occurrences scanning from the left, all of them when count is negative;
\* an empty `old` matches before every character and at the end.
RECURSIVE ReplaceCount(_, _, _, _)
ReplaceCount(s, old, new, count) ==
    IF count = 0 THEN s
    ELSE IF old = <<>> THEN
        IF s = <<>> THEN new
        ELSE new \o <<Head(s)>> \o ReplaceCount(Tail(s), old, new, count - 1)
    ELSE IF Len(s) < Len(old) THEN s
    ELSE IF StartsWith(s, old) THEN
        new \o ReplaceCount(SubSeq(s, Len(old) + 1, Len(s)), old, new, count - 1)
    ELSE <<Head(s)>> \o ReplaceCount(Tail(s), old, new, count)

\* number of non-overlapping occurrences of a non-empty text t in s
RECURSIVE CountOcc(_, _)
CountOcc(s, t) ==
    IF Len(s) < Len(t) THEN 0
    ELSE IF StartsWith(s, t) THEN 1 + CountOcc(SubSeq(s, Len(t) + 1, Len(s)), t)
    ELSE CountOcc(Tail(s), t)

\* str.replace(old, new) as called at streamlit_app.py:556 (no count)
Replace(s, old, new) == ReplaceCount(s, old, new, -1)

\* dict.get(key, default)
Get(d, key, default) == IF key \in DOMAIN d THEN d[key] ELSE default

----------------------------------------------------------------------------
(* Final assembly (streamlit_app.py:547-582) *)

\* the orders random.shuffle can leave a 4-element list in
Perm4 == {p \in [1..4 -> 1..4] : \A i, j \in 1..4 : p[i] = p[j] => i = j}

\* a shuffle that fills every position by sampling the first three options
\* again instead of permuting all four
ShuffleWithReplacement(options, p) ==
    <<options[p[1]], options[p[2]], options[p[3]], options[IF p[4] = 4 THEN 4 ELSE p[1]]>>

\* random.shuffle(options), for the order p it happens to draw (line 564)
Shuffle(options, p) == <<options[p[1]], options[p[2]], options[p[3]], options[p[4]]>>

\* list.index(x): the first position holding x (1-based here, 0-based in Python)
IndexOf(seq, x) == CHOOSE i \in 1..Len(seq) : seq[i] = x /\ \A j \in 1..(i - 1) : seq[j] # x

\* chr(65 + k) for k = i - 1
Chr65(i) == <<<<"A">>, <<"B">>, <<"C">>, <<"D">>>>[i]

\* a letter that ignores the shuffle: the answer is appended last
CorrectLetterUnshuffled(options, correct_answer) == Chr65(4)

\* correct_letter = chr(65 + options.index(correct_answer)) (line 565)
CorrectLetter(options, correct_answer) == Chr65(IndexOf(options, correct_answer))

\* the option list before the shuffle (lines 558-563)
Options(stage3_data, correct_answer) ==
    << Get(stage3_data, "Selected Distractor A", EmptyText),
       Get(stage3_data, "Selected Distractor B", EmptyText),
       Get(stage3_data, "Selected Distractor C", EmptyText),
       correct_answer >>

\* question_prompt (lines 554-556)
QuestionPrompt(stage1_data) ==
    Replace(Get(stage1_data, "Complete Sentence", EmptyText),
            Get(stage1_data, "Correct Answer", EmptyText),
            BlankMarker)

\* final_question for one index and one outcome p of the shuffle (lines 551-578)
AssembleQuestion(stage1_data, stage3_data, p) ==
    LET correct_answer == Get(stage1_data, "Correct Answer", EmptyText)
        options == Shuffle(Options(stage3_data, correct_answer), p)
    IN  [k \in {"Item Number", "Assessment Focus", "Question Prompt",
                "Answer A", "Answer B", "Answer C", "Answer D",
                "Correct Answer", "CEFR rating", "Category"} |->
           CASE k = "Question Prompt" -> QuestionPrompt(stage1_data)
             [] k = "Answer A" -> options[1]
             [] k = "Answer B" -> options[2]
             [] k = "Answer C" -> options[3]
             [] k = "Answer D" -> options[4]
             [] k = "Correct Answer" -> CorrectLetter(options, correct_answer)
             [] OTHER -> Get(stage1_data, k, EmptyText)]

\* every final_question the shuffle can produce for one index
QuestionsFor(stage1_data, stage3_data) ==
    {AssembleQuestion(stage1_data, stage3_data, p) : p \in Perm4}

\* an assembly that stops one index short of the Stage 3 list
HasStage3OffByOne(i, s3_list) == i < Len(s3_list)

\* `if i < len(stage3_data_list)` (line 550); i is 1-based here
HasStage3(i, s3_list) == i <= Len(s3_list)

\* the lists generated_questions can be after the loop of lines 549-580,
\* from index i on
RECURSIVE Assemblies(_, _, _)
Assemblies(s1_list, s3_list, i) ==
    IF i > Len(s1_list) THEN {<<>>}
    ELSE IF HasStage3(i, s3_list)
         THEN {<<q>> \o rest : q \in QuestionsFor(s1_list[i], s3_list[i]),
                               rest \in Assemblies(s1_list, s3_list, i + 1)}
         ELSE Assemblies(s1_list, s3_list, i + 1)

----------------------------------------------------------------------------
(* Widgets, planner, LLM responses *)

SequentialBatch == "Sequential Batch (3-Call)"
Segmented == "Segmented (2-Call)"
Holistic == "Holistic (1-Call)"

\* the strategy selectbox (streamlit_app.py:374-379)
Strategies == {SequentialBatch, Holistic, Segmented}

\* the question-type selectbox (streamlit_app.py:351-355)
QuestionTypes == {"Grammar", "Vocabulary"}

\* get_focus_options for B1, first entry of each type (streamlit_app.py:220-277)
FocusOptions(q_type) ==
    IF q_type = "Grammar" THEN <<"Past Simple vs. Present Perfect">>
    ELSE <<"Meaning-in-Sentence (Inference)">>

\* the multiselect: nothing selected, or the options above
FocusSelections(q_type) == {<<>>, FocusOptions(q_type)}

\* a planner that numbers the jobs from 1
create_job_list_from_one(total_questions, q_type, cefr_target, selected_focus_list, context_topic, generation_strategy) ==
    [i \in 1..total_questions |->
        [job_id |-> i,
         cefr |-> cefr_target,
         type |-> q_type,
         focus |-> selected_focus_list[((i - 1) % Len(selected_focus_list)) + 1],
         context |-> context_topic,
         strategy |-> generation_strategy]]

\* test_planner.create_job_list: total_questions jobs, job_id 0..N-1, the
\* selected foci handed out in turn
create_job_list(total_questions, q_type, cefr_target, selected_focus_list, context_topic, generation_strategy) ==
    [i \in 1..total_questions |->
        [job_id |-> i - 1,
         cefr |-> cefr_target,
         type |-> q_type,
         focus |-> selected_focus_list[((i - 1) % Len(selected_focus_list)) + 1],
         context |-> context_topic,
         strategy |-> generation_strategy]]

\* st.session_state values that are Python's None; a table is stored only
\* when it has rows (lines 619, 629-631), so None is the table with no row
None == <<>>
NoStrategy == "None"

\* all lists of at most n elements of S
ListsUpTo(S, n) == UNION {[1..k -> S] : k \in 0..n}

\* What llm_service.call_llm can hand back for a batch stage: text that is
\* no JSON ("garbage"), a JSON object holding the stage's key and its array
\* ("keyed"), other JSON in which an array is found ("other"), JSON without
\* any array ("noarray").
Garbage == [shape |-> "garbage", arr |-> <<>>]
NoArray == [shape |-> "noarray", arr |-> <<>>]
RawResponses(records) ==
    {Garbage, NoArray}
    \cup {[shape |-> sh, arr |-> a] : sh \in {"keyed", "other"},
                                      a \in ListsUpTo(records, MaxRecs)}

\* what a response is, as the handler's exchanges record it
Outcome(raw) ==
    CASE raw.shape = "garbage" -> "unparsable"
      [] raw.shape = "noarray" -> "no array"
      [] raw.shape \in {"keyed", "other"} -> "array"
      [] OTHER -> "object"

\* output_formatter.parse_response: (parsedValue, null) or (null, error)
parse_response(raw) ==
    IF raw.shape = "garbage"
    THEN [data |-> None, error |-> "not valid JSON"]
    ELSE [data |-> raw, error |-> ""]

\* output_formatter.extract_array_from_response: the first array found
\* among the object's values, else an error
extract_array_from_response(data) ==
    IF data.shape \in {"keyed", "other"}
    THEN [list |-> data.arr, error |-> ""]
    ELSE [list |-> None, error |-> "no array found"]

\* a stage whose parse or extraction error is not checked
ExtractStageUnchecked(k, raw) ==
    [ok |-> TRUE, list |-> raw.arr, error |-> ""]

\* Lines 456-467 (Stage 1), 497-508 (Stage 2), 532-543 (Stage 3): parse the
\* raw response, take the array under the stage's key or extract one;
\* ok = FALSE stands for st.error(error) followed by break.
ExtractStage(k, raw) ==
    LET parsed == parse_response(raw) IN
    IF parsed.error # ""
    THEN [ok |-> FALSE, list |-> <<>>, error |-> "failed"]
    ELSE IF parsed.data.shape = "keyed"
    THEN [ok |-> TRUE, list |-> parsed.data.arr, error |-> ""]
    ELSE LET extracted == extract_array_from_response(parsed.data) IN
         IF extracted.error # ""
         THEN [ok |-> FALSE, list |-> <<>>, error |-> "extraction failed"]
         ELSE [ok |-> TRUE, list |-> extracted.list, error |-> ""]

----------------------------------------------------------------------------
(* Prompt composers (prompt_engineer.py): what each prompt asks for *)

\* "exactly {len(job_list)} complete test questions" (lines 672-674, 731-733)
create_sequential_batch_stage1_prompt(jobs) ==
    [composer |-> "sequential_batch_stage1", n |-> Len(jobs), input |-> <<>>]

\* lines 795-806: asks for len(job_list) candidate sets, embeds stage1_outputs
create_sequential_batch_stage2_grammar_prompt(jobs, stage1_outputs) ==
    [composer |-> "sequential_batch_stage2_grammar", n |-> Len(jobs),
     input |-> stage1_outputs]

\* lines 864-875
create_sequential_batch_stage2_vocabulary_prompt(jobs, stage1_outputs) ==
    [composer |-> "sequential_batch_stage2_vocabulary", n |-> Len(jobs),
     input |-> stage1_outputs]

Min(a, b) == IF a <= b THEN a ELSE b

CandidateKeys == {"Candidate A", "Candidate B", "Candidate C", "Candidate D", "Candidate E"}

\* a validation input whose every entry takes the candidates of the first
\* Stage2Record
ValidationInputFirstCandidates(jobs, stage1_outputs, stage2_outputs, focus_key) ==
    [j \in 1..Min(Len(jobs), Min(Len(stage1_outputs), Len(stage2_outputs))) |->
        [k \in {"Item Number", focus_key, "Complete Sentence", "Correct Answer", "CEFR"}
               \cup CandidateKeys |->
            IF k = "CEFR" THEN jobs[j].cefr
            ELSE IF k \in CandidateKeys THEN Get(stage2_outputs[1], k, EmptyText)
            ELSE Get(stage1_outputs[j], k, EmptyText)]]

\* validation_input of the Stage 3 composers (lines 958-974, 1054-1070):
\* zip(job_list, stage1_outputs, stage2_outputs) stops at the shortest list
ValidationInput(jobs, stage1_outputs, stage2_outputs, focus_key) ==
    [j \in 1..Min(Len(jobs), Min(Len(stage1_outputs), Len(stage2_outputs))) |->
        [k \in {"Item Number", focus_key, "Complete Sentence", "Correct Answer", "CEFR"}
               \cup CandidateKeys |->
            IF k = "CEFR" THEN jobs[j].cefr
            ELSE IF k \in CandidateKeys THEN Get(stage2_outputs[j], k, EmptyText)
            ELSE Get(stage1_outputs[j], k, EmptyText)]]

\* lines 950-980, 1037-1041
create_sequential_batch_stage3_grammar_prompt(jobs, stage1_outputs, stage2_outputs) ==
    [composer |-> "sequential_batch_stage3_grammar", n |-> Len(jobs),
     input |-> ValidationInput(jobs, stage1_outputs, stage2_outputs, "Assessment Focus")]

\* lines 1046-1076
create_sequential_batch_stage3_vocabulary_prompt(jobs, stage1_outputs, stage2_outputs) ==
    [composer |-> "sequential_batch_stage3_vocabulary", n |-> Len(jobs),
     input |-> ValidationInput(jobs, stage1_outputs, stage2_outputs, "Assessment Focus")]

\* the eight candidates of a vocabulary-list Stage2Record
CandidateKeysOfList == CandidateKeys \cup {"Candidate F", "Candidate G", "Candidate H"}

\* create_vocab_list_stage3_prompt (lines 526-558): the same zip, with the
\* target vocabulary and eight candidates in every entry
create_vocab_list_stage3_prompt(jobs, stage1_outputs, stage2_outputs) ==
    [composer |-> "vocab_list_stage3", n |-> Len(jobs),
     input |->
        [j \in 1..Min(Len(jobs), Min(Len(stage1_outputs), Len(stage2_outputs))) |->
            [k \in {"Item Number", "Target Vocabulary", "Complete Sentence",
                    "Correct Answer", "CEFR"} \cup CandidateKeysOfList |->
                IF k = "CEFR" THEN jobs[j].cefr
                ELSE IF k \in CandidateKeysOfList THEN Get(stage2_outputs[j], k, EmptyText)
                ELSE Get(stage1_outputs[j], k, EmptyText)]]]

\* prompts of the per-job strategies (lines 1199, 1240, 1270), one job each
create_holistic_prompt(job) ==
    [composer |-> "holistic", n |-> 1, input |-> <<job.job_id>>]
create_options_prompt(job) ==
    [composer |-> "options", n |-> 1, input |-> <<job.job_id>>]
create_stem_prompt(job, options_json_string) ==
    [composer |-> "stem", n |-> 1, input |-> <<job.job_id>>]

\* the stage a prompt belongs to
StageOf(prompt) ==
    CASE prompt.composer = "sequential_batch_stage1" -> 1
      [] prompt.composer \in {"sequential_batch_stage2_grammar",
                              "sequential_batch_stage2_vocabulary"} -> 2
      [] prompt.composer \in {"sequential_batch_stage3_grammar",
                              "sequential_batch_stage3_vocabulary"} -> 3
      [] OTHER -> 0

\* a call site that sends the prompt again when it was already sent
CallLLMTwice(calls, prompt) == calls \o <<prompt, prompt>>

\* llm_service.call_llm([sys_msg, user_msg], user_api_key): one request
CallLLM(calls, prompt) == Append(calls, prompt)

----------------------------------------------------------------------------
(* Records the LLM answers with in a batch run *)

Text(c) == <<c>>

\* Stage1Record: the answer occurs in the sentence / does not occur in it
Stage1Good ==
    ("Item Number" :> Text("1")) @@ ("Complete Sentence" :> <<"a", "b">>)
    @@ ("Correct Answer" :> Text("b"))
Stage1Bad ==
    ("Item Number" :> Text("2")) @@ ("Complete Sentence" :> <<"a", "b">>)
    @@ ("Correct Answer" :> Text("c"))
Stage1Records == {Stage1Good, Stage1Bad}

\* Stage2Record: five candidates / three candidates only
Stage2Five ==
    ("Item Number" :> Text("1")) @@ ("Candidate A" :> Text("d"))
    @@ ("Candidate B" :> Text("e")) @@ ("Candidate C" :> Text("f"))
    @@ ("Candidate D" :> Text("g")) @@ ("Candidate E" :> Text("h"))
Stage2Three ==
    ("Item Number" :> Text("2")) @@ ("Candidate A" :> Text("d"))
    @@ ("Candidate B" :> Text("e")) @@ ("Candidate C" :> Text("f"))
Stage2Records == {Stage2Five, Stage2Three}

\* Stage3Record: distractors taken from the candidates / made up
Stage3FromCandidates ==
    ("Item Number" :> Text("1")) @@ ("Selected Distractor A" :> Text("d"))
    @@ ("Selected Distractor B" :> Text("d")) @@ ("Selected Distractor C" :> Text("d"))
Stage3MadeUp ==
    ("Item Number" :> Text("2")) @@ ("Selected Distractor A" :> Text("z"))
    @@ ("Selected Distractor B" :> Text("z")) @@ ("Selected Distractor C" :> Text("z"))
Stage3Records == {Stage3FromCandidates, Stage3MadeUp}

\* the JSON object a per-job call (Holistic, Segmented) parses to
QuestionData(job) == ("Item Number" :> job.job_id)
PerJobResponses(jobs, i) ==
    IF i \in 1..Len(jobs)
    THEN {Garbage, [shape |-> "object", arr |-> <<>>, obj |-> QuestionData(jobs[i])]}
    ELSE {}

----------------------------------------------------------------------------
(* The Generate Batch handler (streamlit_app.py:403-648) *)

Log(msg, n) == <<msg, n>>
Err(msg, k) == <<msg, k>>

\* the keys of st.session_state that hold results (lines 313-322)
SessionKeys == {"last_batch", "last_batch_strategy", "sequential_stage1_data",
                "sequential_stage2_data", "sequential_stage3_data"}

\* lines 313-322 assign None to every missing key; no run has assigned any
NeverWritten == [k \in SessionKeys |-> 0]

Init ==
    /\ last_batch = None
    /\ last_batch_strategy = NoStrategy
    /\ sequential_stage1_data = None
    /\ sequential_stage2_data = None
    /\ sequential_stage3_data = None
    /\ debug_logs = <<>>
    /\ pc = "idle"
    /\ job_list = <<>>
    /\ index = 0
    /\ stage1_data_list = <<>>
    /\ stage2_data_list = <<>>
    /\ stage3_data_list = <<>>
    /\ generated_questions = <<>>
    /\ llm_calls = <<>>
    /\ llm_responses = <<>>
    /\ errors = <<>>
    /\ call = <<>>
    /\ returned = <<>>
    /\ run = 0
    /\ written_by = NeverWritten

\* pd.DataFrame(lst) if lst else None (lines 629-631)
TableOrNone(lst) == IF lst # <<>> THEN lst ELSE None

\* An element of a response array that is no JSON object (a string, a
\* number, null): .get raises AttributeError on it.
NotAnObject == [json |-> "string"]
IsObject(x) == "json" \notin DOMAIN x

\* pd.DataFrame(lst) raises for a list that starts with a dict and holds an
\* element without keys()
DataFrameRaises(lst) ==
    lst # <<>> /\ IsObject(lst[1]) /\ \E i \in 1..Len(lst) : ~IsObject(lst[i])

\* s1.get / s2.get raise inside a Stage 3 composer (prompt_engineer.py:
\* 959-974, 1055-1070) on a zipped element that is no object
ComposerRaises(jobs, s1, s2) ==
    \E j \in 1..Min(Len(jobs), Min(Len(s1), Len(s2))) :
        ~IsObject(s1[j]) \/ ~IsObject(s2[j])

\* the first index at which stage1_data.get or stage3_data.get raises in the
\* loop of lines 549-580, 0 when none does
AssemblyRaisesAt(s1_list, s3_list) ==
    LET raising == {i \in 1..Len(s1_list) :
                       i <= Len(s3_list) /\ (~IsObject(s1_list[i]) \/ ~IsObject(s3_list[i]))}
    IN  IF raising = {} THEN 0
        ELSE CHOOSE i \in raising : \A j \in raising : i <= j

\* what the except clause of lines 641-645 appends to the trace and shows
ExceptionLogs == <<Log("CRITICAL EXCEPTION", 0), Log("Traceback", 0)>>
ExceptionError == Err("Error", 0)

\* lines 629-631 raise for one of the three lists
UpdateRaises(questions, s1, s2, s3) ==
    /\ questions # <<>>
    /\ job_list[1].strategy = SequentialBatch
    /\ (DataFrameRaises(s1) \/ DataFrameRaises(s2) \/ DataFrameRaises(s3))

\* Lines 616-631: the session is updated only when a question was generated.
\* `strategy` is the widget value the planner copied into every job. The
\* five assignments run in order: when pd.DataFrame raises for a stage list,
\* the keys assigned before it keep their new values and the rest is skipped.
SessionUpdate(questions, s1, s2, s3) ==
    IF questions # <<>>
    THEN /\ last_batch' = questions
         /\ last_batch_strategy' = job_list[1].strategy
         /\ IF job_list[1].strategy = SequentialBatch
            THEN LET r1 == DataFrameRaises(s1)
                     r2 == r1 \/ DataFrameRaises(s2)
                     r3 == r2 \/ DataFrameRaises(s3)
                 IN  /\ sequential_stage1_data' =
                            IF r1 THEN sequential_stage1_data ELSE TableOrNone(s1)
                     /\ sequential_stage2_data' =
                            IF r2 THEN sequential_stage2_data ELSE TableOrNone(s2)
                     /\ sequential_stage3_data' =
                            IF r3 THEN sequential_stage3_data ELSE TableOrNone(s3)
                     /\ written_by' = [k \in SessionKeys |->
                            IF \/ k = "sequential_stage1_data" /\ r1
                               \/ k = "sequential_stage2_data" /\ r2
                               \/ k = "sequential_stage3_data" /\ r3
                            THEN written_by[k] ELSE run]
            ELSE /\ UNCHANGED <<sequential_stage1_data, sequential_stage2_data,
                                sequential_stage3_data>>
                 /\ written_by' = [k \in SessionKeys |->
                        IF k \in {"last_batch", "last_batch_strategy"}
                        THEN run ELSE written_by[k]]
    ELSE UNCHANGED session

\* the first statements of the loop body for job i (lines 435-451, 585-587,
\* 604-606): which prompt is sent and where the handler then waits
FirstCall(jobs, i) ==
    IF jobs[i].strategy = SequentialBatch
    THEN [pc |-> "stage1", prompt |-> create_sequential_batch_stage1_prompt(jobs)]
    ELSE IF jobs[i].strategy = Segmented
    THEN [pc |-> "options", prompt |-> create_options_prompt(jobs[i])]
    ELSE [pc |-> "holistic", prompt |-> create_holistic_prompt(jobs[i])]

SequentialHeader(jobs) ==
    << Log("====", 0), Log("NEW SEQUENTIAL BATCH MODE - STARTING", 0),
       Log("Batch size", Len(jobs)), Log("====", 0),
       Log("--- STAGE 1: SENTENCE GENERATION ---", 0) >>

\* st.error of line 405
FocusError == Err("Please select at least one 'Assessment Focus'.", 0)

\* an empty selection noticed only after the trace was emptied
RejectEmptyFocusAfterReset ==
    /\ errors' = <<FocusError>>
    /\ pc' = "done"
    /\ debug_logs' = <<>>
    /\ UNCHANGED <<session, run, job_list, index, stage1_data_list,
                   stage2_data_list, stage3_data_list, generated_questions,
                   llm_calls, llm_responses>>

\* `if not selected_focus: st.error(...)` (lines 404-405): the handler ends
RejectEmptyFocus ==
    /\ errors' = <<FocusError>>
    /\ pc' = "done"
    /\ UNCHANGED <<session, run, debug_logs, job_list, index, stage1_data_list,
                   stage2_data_list, stage3_data_list, generated_questions,
                   llm_calls, llm_responses>>

\* "Generate Batch" pressed (lines 403-451): without a focus an error and
\* nothing else; otherwise the trace is emptied, the jobs are planned and the
\* first LLM call of the strategy is issued.
GenerateBatch(selected_focus, q_type, cefr, strategy, batch_size) ==
    /\ pc = "idle"
    /\ UNCHANGED helpers
    /\ IF selected_focus = <<>>
       THEN RejectEmptyFocus
       ELSE LET jobs == create_job_list(batch_size, q_type, cefr, selected_focus,
                                        "General", strategy)
                first == FirstCall(jobs, 1)
            IN  /\ run < MaxRuns
                /\ run' = run + 1
                /\ job_list' = jobs
                /\ index' = 1
                /\ debug_logs' = IF strategy = SequentialBatch
                                 THEN SequentialHeader(jobs) ELSE <<>>
                /\ llm_calls' = CallLLM(<<>>, first.prompt)
                /\ llm_responses' = <<>>
                /\ pc' = first.pc
                /\ errors' = <<>>
                /\ generated_questions' = <<>>
                /\ stage1_data_list' = <<>>
                /\ stage2_data_list' = <<>>
                /\ stage3_data_list' = <<>>
                /\ UNCHANGED session

\* an exception path that still stores the questions generated so far
LLMRaisesKeepingQuestions ==
    /\ pc \in {"stage1", "stage2", "stage3", "options", "stem", "holistic"}
    /\ UNCHANGED <<helpers, run>>
    /\ debug_logs' = debug_logs \o <<Log("CRITICAL EXCEPTION", 0), Log("Traceback", 0)>>
    /\ errors' = Append(errors, Err("Error", 0))
    /\ llm_responses' = Append(llm_responses, "raised")
    /\ pc' = "done"
    /\ SessionUpdate(generated_questions, stage1_data_list, stage2_data_list,
                     stage3_data_list)
    /\ UNCHANGED <<job_list, index, stage1_data_list, stage2_data_list,
                   stage3_data_list, generated_questions, llm_calls>>

\* llm_service.call_llm raises (lines 641-648): the exception is logged and
\* shown, and the session update of lines 616-631 is never reached.
LLMRaises ==
    /\ pc \in {"stage1", "stage2", "stage3", "options", "stem", "holistic"}
    /\ UNCHANGED <<helpers, run>>
    /\ debug_logs' = debug_logs \o <<Log("CRITICAL EXCEPTION", 0), Log("Traceback", 0)>>
    /\ errors' = Append(errors, Err("Error", 0))
    /\ llm_responses' = Append(llm_responses, "raised")
    /\ pc' = "done"
    /\ UNCHANGED <<session, job_list, index, stage1_data_list, stage2_data_list,
                   stage3_data_list, generated_questions, llm_calls>>

\* a stage failure: st.error, break, then lines 616-619 with no question
AbortBatch(k, error) ==
    /\ errors' = Append(errors, Err(error, k))
    /\ pc' = "done"
    /\ UNCHANGED <<session, job_list, index, generated_questions, llm_calls>>

\* lines 475-490: the Stage 2 composer is chosen by the first job's type
Stage2Prompt(jobs, s1) ==
    IF jobs[1].type = "Grammar"
    THEN create_sequential_batch_stage2_grammar_prompt(jobs, s1)
    ELSE create_sequential_batch_stage2_vocabulary_prompt(jobs, s1)

\* a Stage 3 composer chosen by the type of the last job
Stage3PromptByLastJob(jobs, s1, s2) ==
    IF jobs[Len(jobs)].type = "Grammar"
    THEN create_sequential_batch_stage3_grammar_prompt(jobs, s1, s2)
    ELSE create_sequential_batch_stage3_vocabulary_prompt(jobs, s1, s2)

\* lines 516-525
Stage3Prompt(jobs, s1, s2) ==
    IF jobs[1].type = "Grammar"
    THEN create_sequential_batch_stage3_grammar_prompt(jobs, s1, s2)
    ELSE create_sequential_batch_stage3_vocabulary_prompt(jobs, s1, s2)

\* "Using grammar ..." / "Using vocabulary ..." (lines 479, 484, 517, 522)
TypeLog(jobs, k) ==
    IF jobs[1].type = "Grammar" THEN Log("Using grammar", k)
    ELSE Log("Using vocabulary", k)

\* The Stage 1 response arrives (lines 451-492): parse and extract, then
\* compose the Stage 2 prompt and issue the Stage 2 call.
Stage1Response(raw) ==
    /\ pc = "stage1"
    /\ UNCHANGED <<helpers, run>>
    /\ llm_responses' = Append(llm_responses, Outcome(raw))
    /\ LET r == ExtractStage(1, raw) IN
       IF ~r.ok
       THEN /\ AbortBatch(1, r.error)
            /\ UNCHANGED <<debug_logs, stage1_data_list, stage2_data_list,
                           stage3_data_list>>
       ELSE /\ stage1_data_list' = r.list
            /\ debug_logs' = debug_logs \o
                   << Log("Stage 1: Generated", Len(r.list)),
                      Log("--- STAGE 2: CANDIDATE GENERATION ---", 0),
                      Log(job_list[1].type, 0) >>
                   \o (IF job_list[1].type \in {"Grammar", "Vocabulary"}
                       THEN <<TypeLog(job_list, 2)>> ELSE <<>>)
            /\ IF job_list[1].type \in {"Grammar", "Vocabulary"}
               THEN /\ llm_calls' = CallLLM(llm_calls, Stage2Prompt(job_list, r.list))
                    /\ pc' = "stage2"
                    /\ UNCHANGED errors
               ELSE /\ errors' = Append(errors, Err("Unknown question type", 2))
                    /\ pc' = "done"
                    /\ UNCHANGED llm_calls
            /\ UNCHANGED <<session, job_list, index, stage2_data_list,
                           stage3_data_list, generated_questions>>

\* The Stage 2 response arrives (lines 492-527).
Stage2Response(raw) ==
    /\ pc = "stage2"
    /\ UNCHANGED <<helpers, run>>
    /\ llm_responses' = Append(llm_responses, Outcome(raw))
    /\ LET r == ExtractStage(2, raw) IN
       IF ~r.ok
       THEN /\ AbortBatch(2, r.error)
            /\ UNCHANGED <<debug_logs, stage1_data_list, stage2_data_list,
                           stage3_data_list>>
       ELSE IF ComposerRaises(job_list, stage1_data_list, r.list)
       THEN /\ stage2_data_list' = r.list
            /\ debug_logs' = debug_logs \o
                   << Log("Stage 2: Generated", Len(r.list)),
                      Log("--- STAGE 3: VALIDATION & FILTERING ---", 0),
                      TypeLog(job_list, 3) >>
                   \o ExceptionLogs
            /\ errors' = Append(errors, ExceptionError)
            /\ pc' = "done"
            /\ UNCHANGED <<session, job_list, index, stage1_data_list,
                           stage3_data_list, generated_questions, llm_calls>>
       ELSE /\ stage2_data_list' = r.list
            /\ debug_logs' = debug_logs \o
                   << Log("Stage 2: Generated", Len(r.list)),
                      Log("--- STAGE 3: VALIDATION & FILTERING ---", 0),
                      TypeLog(job_list, 3) >>
            /\ llm_calls' = CallLLM(llm_calls,
                                    Stage3Prompt(job_list, stage1_data_list, r.list))
            /\ pc' = "stage3"
            /\ UNCHANGED <<session, job_list, index, stage1_data_list,
                           stage3_data_list, generated_questions, errors>>

\* "Assembled question {i+1}" for every index the loop assembles (line 580)
RECURSIVE AssemblyLogs(_, _, _)
AssemblyLogs(s1_list, s3_list, i) ==
    IF i > Len(s1_list) THEN <<>>
    ELSE (IF HasStage3(i, s3_list) THEN <<Log("Assembled question", i)>> ELSE <<>>)
         \o AssemblyLogs(s1_list, s3_list, i + 1)

\* The Stage 3 response arrives (lines 527-583, 616-631): parse and extract,
\* assemble the final questions, leave the loop and update the session.
Stage3Response(raw) ==
    /\ pc = "stage3"
    /\ UNCHANGED <<helpers, run>>
    /\ llm_responses' = Append(llm_responses, Outcome(raw))
    /\ LET r == ExtractStage(3, raw) IN
       IF ~r.ok
       THEN /\ AbortBatch(3, r.error)
            /\ UNCHANGED <<debug_logs, stage1_data_list, stage2_data_list,
                           stage3_data_list>>
       ELSE IF AssemblyRaisesAt(stage1_data_list, r.list) > 0
       THEN LET assembled == SubSeq(stage1_data_list, 1,
                                    AssemblyRaisesAt(stage1_data_list, r.list) - 1)
            IN  \E questions \in Assemblies(assembled, r.list, 1) :
                /\ stage3_data_list' = r.list
                /\ generated_questions' = questions
                /\ debug_logs' = debug_logs \o
                       << Log("Stage 3: Validated", Len(r.list)),
                          Log("--- FINAL ASSEMBLY ---", 0) >>
                       \o AssemblyLogs(assembled, r.list, 1)
                       \o ExceptionLogs
                /\ errors' = Append(errors, ExceptionError)
                /\ pc' = "done"
                /\ UNCHANGED <<session, job_list, index, stage1_data_list,
                               stage2_data_list, llm_calls>>
       ELSE \E questions \in Assemblies(stage1_data_list, r.list, 1) :
            /\ stage3_data_list' = r.list
            /\ generated_questions' = questions
            /\ debug_logs' = debug_logs \o
                   << Log("Stage 3: Validated", Len(r.list)),
                      Log("--- FINAL ASSEMBLY ---", 0) >>
                   \o AssemblyLogs(stage1_data_list, r.list, 1)
                   \o <<Log("TOTAL ASSEMBLED", Len(questions))>>
                   \o (IF UpdateRaises(questions, stage1_data_list, stage2_data_list, r.list)
                       THEN ExceptionLogs ELSE <<>>)
            /\ errors' = IF UpdateRaises(questions, stage1_data_list, stage2_data_list, r.list)
                         THEN Append(errors, ExceptionError) ELSE errors
            /\ SessionUpdate(questions, stage1_data_list, stage2_data_list, r.list)
            /\ pc' = "done"
            /\ UNCHANGED <<job_list, index, stage1_data_list, stage2_data_list,
                           llm_calls>>

\* a loop that is left as soon as a job added no question
NextJobUnlessFailed(questions) ==
    IF index < Len(job_list) /\ questions # generated_questions
    THEN LET first == FirstCall(job_list, index + 1) IN
         /\ index' = index + 1
         /\ llm_calls' = CallLLM(llm_calls, first.prompt)
         /\ pc' = first.pc
         /\ UNCHANGED session
    ELSE /\ pc' = "done"
         /\ SessionUpdate(questions, <<>>, <<>>, <<>>)
         /\ UNCHANGED <<index, llm_calls>>

\* End of one iteration of the per-job loop (lines 614-631): the next job's
\* first call is issued, or the loop ends and the session is updated.
NextJob(questions) ==
    IF index < Len(job_list)
    THEN LET first == FirstCall(job_list, index + 1) IN
         /\ index' = index + 1
         /\ llm_calls' = CallLLM(llm_calls, first.prompt)
         /\ pc' = first.pc
         /\ UNCHANGED session
    ELSE /\ pc' = "done"
         /\ SessionUpdate(questions, <<>>, <<>>, <<>>)
         /\ UNCHANGED <<index, llm_calls>>

\* Holistic (lines 604-612): the job's single response arrives.
HolisticResponse(raw) ==
    /\ pc = "holistic"
    /\ UNCHANGED <<helpers, run>>
    /\ llm_responses' = Append(llm_responses, Outcome(raw))
    /\ LET parsed == parse_response(raw)
           questions == IF parsed.error # "" THEN generated_questions
                        ELSE Append(generated_questions, parsed.data.obj)
       IN  /\ generated_questions' = questions
           /\ errors' = IF parsed.error # ""
                        THEN Append(errors, Err("Job Failed", job_list[index].job_id))
                        ELSE errors
           /\ NextJob(questions)
    /\ UNCHANGED <<debug_logs, job_list, stage1_data_list, stage2_data_list,
                   stage3_data_list>>

\* Segmented (lines 587-595): the options response arrives; on a parse
\* error the job is skipped (continue), otherwise the stem call is issued.
OptionsResponse(raw) ==
    /\ pc = "options"
    /\ UNCHANGED <<helpers, run>>
    /\ llm_responses' = Append(llm_responses, Outcome(raw))
    /\ LET parsed == parse_response(raw) IN
       IF parsed.error # ""
       THEN /\ errors' = Append(errors, Err("Job Failed at Options", job_list[index].job_id))
            /\ NextJob(generated_questions)
       ELSE /\ llm_calls' = CallLLM(llm_calls, create_stem_prompt(job_list[index], parsed.data))
            /\ pc' = "stem"
            /\ UNCHANGED <<session, index, errors>>
    /\ UNCHANGED <<debug_logs, job_list, stage1_data_list, stage2_data_list,
                   stage3_data_list, generated_questions>>

\* Segmented (lines 596-602): the stem response arrives.
StemResponse(raw) ==
    /\ pc = "stem"
    /\ UNCHANGED <<helpers, run>>
    /\ llm_responses' = Append(llm_responses, Outcome(raw))
    /\ LET parsed == parse_response(raw)
           questions == IF parsed.error # "" THEN generated_questions
                        ELSE Append(generated_questions, parsed.data.obj)
       IN  /\ generated_questions' = questions
           /\ errors' = IF parsed.error # ""
                        THEN Append(errors, Err("Job Failed", job_list[index].job_id))
                        ELSE errors
           /\ NextJob(questions)
    /\ UNCHANGED <<debug_logs, job_list, stage1_data_list, stage2_data_list,
                   stage3_data_list>>

\* the per-job calls return with what the LLM sent for the current job
HolisticReturns == \E raw \in PerJobResponses(job_list, index) : HolisticResponse(raw)
OptionsReturns == \E raw \in PerJobResponses(job_list, index) : OptionsResponse(raw)
StemReturns == \E raw \in PerJobResponses(job_list, index) : StemResponse(raw)

Next ==
    \/ \E q_type \in QuestionTypes, strategy \in Strategies, batch_size \in 1..MaxJobs :
          \E selected_focus \in FocusSelections(q_type) :
             GenerateBatch(selected_focus, q_type, "B1", strategy, batch_size)
    \/ \E raw \in RawResponses(Stage1Records) : Stage1Response(raw)
    \/ \E raw \in RawResponses(Stage2Records) : Stage2Response(raw)
    \/ \E raw \in RawResponses(Stage3Records) : Stage3Response(raw)
    \/ HolisticReturns
    \/ OptionsReturns
    \/ StemReturns
    \/ LLMRaises

\* one Generate Batch run in a fresh session
Spec == Init /\ [][Next]_vars

----------------------------------------------------------------------------
(* Several runs in one session *)

\* Streamlit runs the script again from its first line on the next
\* interaction: the locals and the messages on the page are gone, and
\* st.session_state is kept (lines 313-324 assign only missing keys).
Rerun ==
    /\ pc = "done"
    /\ pc' = "idle"
    /\ job_list' = <<>>
    /\ index' = 0
    /\ stage1_data_list' = <<>>
    /\ stage2_data_list' = <<>>
    /\ stage3_data_list' = <<>>
    /\ generated_questions' = <<>>
    /\ llm_calls' = <<>>
    /\ llm_responses' = <<>>
    /\ errors' = <<>>
    /\ UNCHANGED <<session, debug_logs, helpers, run>>

\* a button that resets the session's results together with the trace
ClearEverything ==
    /\ pc \in {"idle", "done"}
    /\ debug_logs' = <<>>
    /\ last_batch' = None
    /\ last_batch_strategy' = NoStrategy
    /\ sequential_stage1_data' = None
    /\ sequential_stage2_data' = None
    /\ sequential_stage3_data' = None
    /\ pc' = "idle"
    /\ job_list' = <<>>
    /\ index' = 0
    /\ stage1_data_list' = <<>>
    /\ stage2_data_list' = <<>>
    /\ stage3_data_list' = <<>>
    /\ generated_questions' = <<>>
    /\ llm_calls' = <<>>
    /\ llm_responses' = <<>>
    /\ errors' = <<>>
    /\ UNCHANGED <<written_by, helpers, run>>

\* "Clear Debug Logs" pressed on a rendered page (lines 785-787): the trace
\* is emptied and st.rerun() runs the script again from its first line
ClearDebugLogs ==
    /\ pc \in {"idle", "done"}
    /\ debug_logs' = <<>>
    /\ pc' = "idle"
    /\ job_list' = <<>>
    /\ index' = 0
    /\ stage1_data_list' = <<>>
    /\ stage2_data_list' = <<>>
    /\ stage3_data_list' = <<>>
    /\ generated_questions' = <<>>
    /\ llm_calls' = <<>>
    /\ llm_responses' = <<>>
    /\ errors' = <<>>
    /\ UNCHANGED <<session, helpers, run>>

\* a Stage3Record whose distractors repeat the answer of Stage1Good
Stage3Echo ==
    ("Item Number" :> Text("1")) @@ ("Selected Distractor A" :> Text("b"))
    @@ ("Selected Distractor B" :> Text("b")) @@ ("Selected Distractor C" :> Text("b"))

\* the responses of a session's runs: no JSON, or the stage's key with one
\* record per job, or with one record per job followed by an element that
\* is no object
SessionResponses(record, jobs) ==
    {Garbage,
     [shape |-> "keyed", arr |-> [i \in 1..Len(jobs) |-> record]],
     [shape |-> "keyed", arr |-> [i \in 1..Len(jobs) |-> record] \o <<NotAnObject>>]}

\* the batch calls return with what the LLM sent for the planned jobs
Stage1Returns == \E raw \in SessionResponses(Stage1Good, job_list) : Stage1Response(raw)
Stage2Returns == \E raw \in SessionResponses(Stage2Five, job_list) : Stage2Response(raw)
Stage3Returns == \E raw \in SessionResponses(Stage3Echo, job_list) : Stage3Response(raw)

NextSession ==
    \/ \E q_type \in QuestionTypes, strategy \in Strategies, batch_size \in 1..MaxJobs :
          \E selected_focus \in FocusSelections(q_type) :
             GenerateBatch(selected_focus, q_type, "B1", strategy, batch_size)
    \/ Stage1Returns
    \/ Stage2Returns
    \/ Stage3Returns
    \/ HolisticReturns
    \/ OptionsReturns
    \/ StemReturns
    \/ LLMRaises
    \/ Rerun
    \/ ClearDebugLogs

\* any number of Generate Batch runs and Clear Debug Logs presses in one session
SpecSession == Init /\ [][NextSession]_vars

----------------------------------------------------------------------------
(* The final assembly of one index on its own, over all short texts *)

\* Stage1Records with every sentence and answer over Chars, with and
\* without a "Correct Answer" key
AssembleStage1Records ==
    {("Complete Sentence" :> cs) @@ ("Correct Answer" :> ca) :
        cs \in TextUpTo(MaxSentenceLen), ca \in TextUpTo(MaxAnswerLen)}
    \cup {("Complete Sentence" :> cs) : cs \in TextUpTo(MaxSentenceLen)}

\* Stage3Records whose distractors repeat, equal the answer, differ from it
\* or are missing
AssembleStage3Records ==
    {("Selected Distractor A" :> Text("a")) @@ ("Selected Distractor B" :> b)
     @@ ("Selected Distractor C" :> c) : b \in {Text("a"), Text("b")},
                                          c \in {Text("b"), Text("c")}}
    \cup {("Selected Distractor A" :> Text("a")) @@ ("Selected Distractor B" :> b) :
              b \in {Text("a"), Text("b")}}

InitAssemble ==
    /\ last_batch = None
    /\ last_batch_strategy = NoStrategy
    /\ sequential_stage1_data = None
    /\ sequential_stage2_data = None
    /\ sequential_stage3_data = None
    /\ debug_logs = <<>>
    /\ pc = "assemble"
    /\ job_list = <<>>
    /\ index = 1
    /\ stage1_data_list \in {<<r>> : r \in AssembleStage1Records}
    /\ stage2_data_list = <<>>
    /\ stage3_data_list \in {<<r>> : r \in AssembleStage3Records}
    /\ generated_questions = <<>>
    /\ llm_calls = <<>>
    /\ llm_responses = <<>>
    /\ errors = <<>>
    /\ call = <<>>
    /\ returned = <<>>
    /\ run = 0
    /\ written_by = NeverWritten

\* the loop of lines 549-580 on the two lists
AssembleOnly ==
    /\ pc = "assemble"
    /\ UNCHANGED <<helpers, run>>
    /\ \E questions \in Assemblies(stage1_data_list, stage3_data_list, 1) :
          generated_questions' = questions
    /\ pc' = "assembled"
    /\ UNCHANGED <<session, debug_logs, job_list, index, stage1_data_list,
                   stage2_data_list, stage3_data_list, llm_calls, llm_responses,
                   errors>>

NextAssemble == AssembleOnly

SpecAssemble == InitAssemble /\ [][NextAssemble]_vars

----------------------------------------------------------------------------
(* Helpers called on their own: the arguments are drawn, the helper returns *)

\* the handler's variables, untouched while a helper is called on its own
handler == <<last_batch, last_batch_strategy, sequential_stage1_data,
             sequential_stage2_data, sequential_stage3_data, debug_logs,
             job_list, index, stage1_data_list, stage2_data_list,
             stage3_data_list, generated_questions, llm_calls, llm_responses,
             errors, run, written_by>>

\* a fresh session in which one of `calls` is about to be made
InitCall(calls) ==
    /\ last_batch = None
    /\ last_batch_strategy = NoStrategy
    /\ sequential_stage1_data = None
    /\ sequential_stage2_data = None
    /\ sequential_stage3_data = None
    /\ debug_logs = <<>>
    /\ pc = "call"
    /\ job_list = <<>>
    /\ index = 0
    /\ stage1_data_list = <<>>
    /\ stage2_data_list = <<>>
    /\ stage3_data_list = <<>>
    /\ generated_questions = <<>>
    /\ llm_calls = <<>>
    /\ llm_responses = <<>>
    /\ errors = <<>>
    /\ call \in calls
    /\ returned = None
    /\ run = 0
    /\ written_by = NeverWritten

\* the call returns `value`
Return(value) ==
    /\ pc = "call"
    /\ returned' = value
    /\ pc' = "returned"
    /\ UNCHANGED <<handler, call>>

\* all lists of at most n elements of S without a repeated element
DistinctListsUpTo(S, n) ==
    {l \in ListsUpTo(S, n) : \A i, j \in 1..Len(l) : l[i] = l[j] => i = j}

----------------------------------------------------------------------------
(* The planner on its own (call site: streamlit_app.py:411-418) *)

\* get_focus_options for B1: the first three entries of each type
\* (streamlit_app.py:220-223, 274-277)
FocusChoices(q_type) ==
    IF q_type = "Grammar"
    THEN {"Past Simple vs. Present Perfect", "Conditionals (Type 1 & 2)",
          "Modals of Obligation (must/have to/should)"}
    ELSE {"Meaning-in-Sentence (Inference)", "Collocation (Adverb+Adj)",
          "Word Form (Affixes - un, re, able)"}

\* the planner calls the handler can make with a non-empty selection
PlannerCalls ==
    UNION {{[fn |-> "create_job_list", total_questions |-> n, q_type |-> t,
             cefr_target |-> "B1", selected_focus_list |-> f,
             context_topic |-> "General", generation_strategy |-> g] :
               n \in 1..MaxJobs, g \in Strategies,
               f \in DistinctListsUpTo(FocusChoices(t), MaxFoci) \ {<<>>}} :
           t \in QuestionTypes}

InitPlanner == InitCall(PlannerCalls)

\* job_list = test_planner.create_job_list(...) (lines 411-418)
CreateJobList ==
    /\ pc = "call"
    /\ call.fn = "create_job_list"
    /\ Return(create_job_list(call.total_questions, call.q_type, call.cefr_target,
                              call.selected_focus_list, call.context_topic,
                              call.generation_strategy))

NextPlanner == CreateJobList

SpecPlanner == InitPlanner /\ [][NextPlanner]_vars

----------------------------------------------------------------------------
(* Text helpers of the vocabulary selection (prompt_engineer.py:165-203) *)

UpperCase == <<"A", "B", "C", "D", "E", "F", "G", "H", "I", "J", "K", "L", "M",
               "N", "O", "P", "Q", "R", "S", "T", "U", "V", "W", "X", "Y", "Z">>
LowerCase == <<"a", "b", "c", "d", "e", "f", "g", "h", "i", "j", "k", "l", "m",
               "n", "o", "p", "q", "r", "s", "t", "u", "v", "w", "x", "y", "z">>

\* str.lower() of one character
LowerChar(c) ==
    IF \E i \in 1..26 : UpperCase[i] = c
    THEN LowerCase[CHOOSE i \in 1..26 : UpperCase[i] = c]
    ELSE c

\* str.lower()
Lower(s) == [i \in 1..Len(s) |-> LowerChar(s[i])]

\* the characters str.strip() and str.split() treat as whitespace
IsSpace(c) == c \in {" ", "\t", "\n"}

\* str.lstrip()
RECURSIVE LStrip(_)
LStrip(s) == IF s # <<>> /\ IsSpace(Head(s)) THEN LStrip(Tail(s)) ELSE s

\* str.rstrip()
RECURSIVE RStrip(_)
RStrip(s) ==
    IF s # <<>> /\ IsSpace(s[Len(s)]) THEN RStrip(SubSeq(s, 1, Len(s) - 1)) ELSE s

\* str.strip()
Strip(s) == RStrip(LStrip(s))

\* str.split(): the maximal runs of non-whitespace characters, in order
RECURSIVE Split(_)
Split(s) ==
    LET t == LStrip(s) IN
    IF t = <<>> THEN <<>>
    ELSE LET n == CHOOSE k \in 1..Len(t) :
                      /\ \A i \in 1..k : ~IsSpace(t[i])
                      /\ (k = Len(t) \/ IsSpace(t[k + 1]))
         IN  <<SubSeq(t, 1, n)>> \o Split(SubSeq(t, n + 1, Len(t)))

\* re.sub(r'\([^)]*\)', '', s): scanning from the left, every "(" that has a
\* ")" after it is removed together with everything up to the first such ")"
RECURSIVE RemoveParenthesised(_)
RemoveParenthesised(s) ==
    IF s = <<>> THEN s
    ELSE IF Head(s) = "(" /\ \E j \in 2..Len(s) : s[j] = ")"
    THEN LET j == CHOOSE k \in 2..Len(s) :
                      s[k] = ")" /\ \A i \in 2..(k - 1) : s[i] # ")"
         IN  RemoveParenthesised(SubSeq(s, j + 1, Len(s)))
    ELSE <<Head(s)>> \o RemoveParenthesised(Tail(s))

\* get_first_word (lines 165-174)
get_first_word(vocab_item) ==
    LET cleaned == RemoveParenthesised(vocab_item)
        words == Split(Strip(cleaned))
    IN  IF words # <<>> THEN words[1] ELSE vocab_item

\* get_initial_letter (lines 177-182): '' for the empty item
get_initial_letter(vocab_item) ==
    LET first_word == get_first_word(vocab_item)
    IN  IF first_word # <<>> THEN <<LowerChar(first_word[1])>> ELSE EmptyText

----------------------------------------------------------------------------
(* get_initial_letter on its own *)

\* the characters vocabulary items are drawn from
ItemChars == {"a", "B", "(", ")", " "}

\* "belong (to)" and "add on" (docstring of get_first_word, line 168)
BelongTo == <<"b", "e", "l", "o", "n", "g", " ", "(", "t", "o", ")">>
AddOn == <<"a", "d", "d", " ", "o", "n">>

\* every short item over ItemChars, and the two documented ones
InitialLetterCalls ==
    {[fn |-> "get_initial_letter", vocab_item |-> v] :
        v \in UNION {[1..n -> ItemChars] : n \in 0..MaxItemLen} \cup {BelongTo, AddOn}}

InitLetter == InitCall(InitialLetterCalls)

GetInitialLetter ==
    /\ pc = "call"
    /\ call.fn = "get_initial_letter"
    /\ Return(get_initial_letter(call.vocab_item))

NextLetter == GetInitialLetter

SpecLetter == InitLetter /\ [][NextLetter]_vars

----------------------------------------------------------------------------
(* Vocabulary selection (prompt_engineer.py:185-300) *)

\* get_phonetic_similar_letters (lines 185-203)
get_phonetic_similar_letters(letter) ==
    LET l == Lower(letter) IN
    CASE l = <<"c">> -> << <<"k">>, <<"q">> >>
      [] l = <<"k">> -> << <<"c">>, <<"q">> >>
      [] l = <<"q">> -> << <<"c">>, <<"k">> >>
      [] l = <<"s">> -> << <<"c">>, <<"z">> >>
      [] l = <<"z">> -> << <<"s">> >>
      [] l = <<"f">> -> << <<"p", "h">> >>
      [] l = <<"p", "h">> -> << <<"f">> >>
      [] l = <<"j">> -> << <<"g">> >>
      [] l = <<"g">> -> << <<"j">> >>
      [] l = <<"i">> -> << <<"y">> >>
      [] l = <<"y">> -> << <<"i">> >>
      [] OTHER -> <<>>

\* a row of the vocabulary table
VocabRow(item, pos) == ("Base Vocabulary Item" :> item) @@ ("Part of Speech" :> pos)

\* selected['Base Vocabulary Item'].tolist()
ItemsOf(rows) == [i \in 1..Len(rows) |-> rows[i]["Base Vocabulary Item"]]

\* .str.lower().str.strip() of a cell, target.lower().strip()
Normal(text) == Strip(Lower(text))

\* DataFrame.sample(n): n different rows, in any order
Samples(rows, n) ==
    {[i \in 1..n |-> rows[f[i]]] :
        f \in {g \in [1..n -> 1..Len(rows)] : \A i, j \in 1..n : g[i] = g[j] => i = j}}

\* a comparison with the target that forgets to normalise the cell
IsTargetVocabExact(item, target_vocab_lower) == item = target_vocab_lower

\* `same_pos['Base Vocabulary Item'].str.lower().str.strip() != target_vocab_lower`
\* (lines 219-221), negated
IsTargetVocab(item, target_vocab_lower) == Normal(item) = target_vocab_lower

\* python_select_by_pos (lines 206-230): the lists it can return
python_select_by_pos(vocab_df, target_vocab, target_pos, max_items) ==
    LET target_vocab_lower == Normal(target_vocab)
        target_pos_lower == Normal(target_pos)
        pos_rows == SelectSeq(vocab_df,
                        LAMBDA r : Normal(r["Part of Speech"]) = target_pos_lower)
        same_pos == SelectSeq(pos_rows,
                        LAMBDA r : ~IsTargetVocab(r["Base Vocabulary Item"], target_vocab_lower))
    IN  IF Len(same_pos) >= max_items
        THEN {ItemsOf(selected) : selected \in Samples(same_pos, max_items)}
        ELSE {ItemsOf(same_pos)}

\* exclude_lower (line 262)
ExcludeLower(exclude_items, target_vocab) ==
    {Normal(exclude_items[i]) : i \in 1..Len(exclude_items)} \cup {Normal(target_vocab)}

\* a fallback filter that only looks at the candidates collected so far
FallbackExcludedCandidatesOnly(exclude_lower, candidates) ==
    {Lower(candidates[i]) : i \in 1..Len(candidates)}

\* `exclude_lower + [c.lower() for c in candidates]` (line 291)
FallbackExcluded(exclude_lower, candidates) ==
    exclude_lower \cup {Lower(candidates[i]) : i \in 1..Len(candidates)}

\* a fallback that adds one item per letter
NeededOne(max_items, candidates) == 1

\* needed = max_items - len(candidates) (line 295)
Needed(max_items, candidates) == max_items - Len(candidates)

\* the loop of lines 278-298 from the letters still to try: the candidate
\* lists it can end with
RECURSIVE PhoneticFallback(_, _, _, _, _)
PhoneticFallback(vocab_df, exclude_lower, candidates, phonetic_letters, max_items) ==
    IF phonetic_letters = <<>> \/ Len(candidates) >= max_items THEN {candidates}
    ELSE LET phon_letter == Head(phonetic_letters)
             letter_rows == SelectSeq(vocab_df,
                 LAMBDA r : get_initial_letter(r["Base Vocabulary Item"]) = phon_letter)
             phonetic_matches == SelectSeq(letter_rows,
                 LAMBDA r : Normal(r["Base Vocabulary Item"])
                               \notin FallbackExcluded(exclude_lower, candidates))
             needed == Needed(max_items, candidates)
         IN  UNION {PhoneticFallback(vocab_df, exclude_lower,
                                     candidates \o ItemsOf(additional),
                                     Tail(phonetic_letters), max_items) :
                       additional \in Samples(phonetic_matches,
                                              Min(needed, Len(phonetic_matches)))}

\* python_select_by_initial_letter (lines 233-300): the lists it can return
python_select_by_initial_letter(vocab_df, target_vocab, max_items, exclude_items) ==
    LET target_letter == get_initial_letter(target_vocab)
        exclude_lower == ExcludeLower(exclude_items, target_vocab)
        letter_rows == SelectSeq(vocab_df,
            LAMBDA r : get_initial_letter(r["Base Vocabulary Item"]) = target_letter)
        same_letter == SelectSeq(letter_rows,
            LAMBDA r : Normal(r["Base Vocabulary Item"]) \notin exclude_lower)
    IN  IF Len(same_letter) >= max_items
        THEN {ItemsOf(selected) : selected \in Samples(same_letter, max_items)}
        ELSE {SubSeq(candidates, 1, Min(max_items, Len(candidates))) :
                 candidates \in PhoneticFallback(vocab_df, exclude_lower,
                                    ItemsOf(same_letter),
                                    get_phonetic_similar_letters(target_letter),
                                    max_items)}

\* a composer that does not tell the letter selection what was selected
ExcludeNothing(pos_selected) == <<>>

\* exclude_items=pos_selected (line 343)
ExcludeItems(pos_selected) == pos_selected

\* Python's max(a, b)
Max(a, b) == IF a >= b THEN a ELSE b

\* the entries pre_selected_data can get for one job (lines 325-359)
PreSelectedEntries(job, stage1_data, vocabulary_list_df) ==
    LET target_vocab == job.target_vocabulary
        target_pos == job.part_of_speech
        Entry(pos_selected, letter_selected) ==
            LET total_python == Len(pos_selected) + Len(letter_selected)
                needed_from_llm == Max(0, TargetPool - total_python)
            IN  ("Item Number" :> Get(stage1_data, "Item Number", None))
                @@ ("Target Vocabulary" :> target_vocab)
                @@ ("Part of Speech" :> target_pos)
                @@ ("Complete Sentence" :> Get(stage1_data, "Complete Sentence", None))
                @@ ("Correct Answer" :> Get(stage1_data, "Correct Answer", None))
                @@ ("POS-selected" :> pos_selected)
                @@ ("Letter-selected" :> letter_selected)
                @@ ("Total from vocab list" :> total_python)
                @@ ("Needed from LLM" :> needed_from_llm)
    IN  UNION {{Entry(pos_selected, letter_selected) :
                   letter_selected \in python_select_by_initial_letter(
                       vocabulary_list_df, target_vocab, MaxPerSelection,
                       ExcludeItems(pos_selected))} :
               pos_selected \in python_select_by_pos(
                   vocabulary_list_df, target_vocab, target_pos, MaxPerSelection)}

\* the lists pre_selected_data can be after the loop, from job i on
RECURSIVE PreSelectedData(_, _, _, _)
PreSelectedData(jobs, stage1_outputs, vocabulary_list_df, i) ==
    IF i > Len(jobs) THEN {<<>>}
    ELSE {<<entry>> \o rest :
             entry \in PreSelectedEntries(jobs[i], stage1_outputs[i], vocabulary_list_df),
             rest \in PreSelectedData(jobs, stage1_outputs, vocabulary_list_df, i + 1)}

\* create_vocab_list_stage2_prompt (lines 306-359): the prompts it can return
create_vocab_list_stage2_prompt(jobs, stage1_outputs, vocabulary_list_df) ==
    {[composer |-> "vocab_list_stage2", n |-> Len(jobs), input |-> pre_selected_data] :
        pre_selected_data \in PreSelectedData(jobs, stage1_outputs, vocabulary_list_df, 1)}

----------------------------------------------------------------------------
(* The vocabulary selection on its own *)

Fan == <<"f", "a", "n">>
FanPadded == <<"F", "a", "n", " ">>
Fog == <<"f", "o", "g">>
Phone == <<"p", "h", "o", "n", "e">>
Cat == <<"c", "a", "t">>
Cup == <<"c", "u", "p">>
Kit == <<"k", "i", "t">>
CupPadded == <<" ", "C", "u", "p">>
Zip == <<"z", "i", "p">>
Sun == <<"s", "u", "n">>
Noun == <<"n", "o", "u", "n">>
NounPadded == <<"N", "o", "u", "n", " ">>
Verb == <<"v", "e", "r", "b">>

\* the rows vocabulary tables are made of: words beginning with f, ph, c, k
\* and z, one word twice in different spellings, one part of speech written
\* with a capital and a trailing blank
VocabularyList ==
    << VocabRow(Fan, Noun), VocabRow(FanPadded, Noun), VocabRow(Fog, NounPadded),
       VocabRow(Phone, Noun), VocabRow(Cat, Noun), VocabRow(Cup, Noun),
       VocabRow(Kit, Verb), VocabRow(Zip, Verb) >>

\* the rows of `list` at the positions in `keep`, in the order of `list`
Pick(list, keep) ==
    [k \in 1..Cardinality(keep) |->
        list[CHOOSE i \in keep : Cardinality({j \in keep : j < i}) = k - 1]]

\* the tables: at most MaxRows rows of VocabularyList, in its order
VocabTables ==
    {Pick(VocabularyList, keep) :
        keep \in {k \in SUBSET (1..Len(VocabularyList)) : Cardinality(k) <= MaxRows}}

Targets == {Fan, Phone, Cat, Sun}

SelectByPosCalls ==
    {[fn |-> "python_select_by_pos", vocab_df |-> df, target_vocab |-> t,
      target_pos |-> p, max_items |-> m] :
        df \in VocabTables, t \in Targets, p \in {Noun, NounPadded, Verb},
        m \in 0..MaxItems}

SelectByInitialLetterCalls ==
    {[fn |-> "python_select_by_initial_letter", vocab_df |-> df, target_vocab |-> t,
      max_items |-> m, exclude_items |-> x] :
        df \in VocabTables, t \in Targets, m \in 0..MaxItems,
        x \in {<<>>, <<Fog>>, <<CupPadded>>}}

\* one vocabulary-list job and its Stage1Record
VocabListStage2Calls ==
    {[fn |-> "create_vocab_list_stage2_prompt",
      job_list |-> <<[job_id |-> 0, cefr |-> "B1", type |-> "Vocabulary",
                      target_vocabulary |-> t, part_of_speech |-> p]>>,
      stage1_outputs |-> <<Stage1Good>>,
      vocabulary_list_df |-> df] :
        df \in VocabTables, t \in Targets, p \in {Noun, Verb}}

InitSelect ==
    InitCall(SelectByPosCalls \cup SelectByInitialLetterCalls \cup VocabListStage2Calls)

SelectByPos ==
    /\ pc = "call"
    /\ call.fn = "python_select_by_pos"
    /\ \E selected \in python_select_by_pos(call.vocab_df, call.target_vocab,
                                             call.target_pos, call.max_items) :
          Return(selected)

SelectByInitialLetter ==
    /\ pc = "call"
    /\ call.fn = "python_select_by_initial_letter"
    /\ \E selected \in python_select_by_initial_letter(call.vocab_df, call.target_vocab,
                             call.max_items, call.exclude_items) :
          Return(selected)

VocabListStage2 ==
    /\ pc = "call"
    /\ call.fn = "create_vocab_list_stage2_prompt"
    /\ \E prompt \in create_vocab_list_stage2_prompt(call.job_list, call.stage1_outputs,
                                                      call.vocabulary_list_df) :
          Return(prompt)

NextSelect == SelectByPos \/ SelectByInitialLetter \/ VocabListStage2

SpecSelect == InitSelect /\ [][NextSelect]_vars

----------------------------------------------------------------------------
(* get_few_shot_examples (prompt_engineer.py:10-44) *)

\* An example bank is a table: its column names and its rows, a row being
\* the list of its cells in column order.  example_banks maps "grammar" and
\* "vocabulary" to a bank; a type without a bank is missing from the map.
Bank(columns, rows) == [columns |-> columns, rows |-> rows]

\* job['type'].lower()
TypeKey(q_type) ==
    CASE q_type = "Grammar" -> "grammar"
      [] q_type = "Vocabulary" -> "vocabulary"
      [] OTHER -> q_type

CEFRRating == <<"C", "E", "F", "R", " ", "r", "a", "t", "i", "n", "g">>
NotAvailable == <<"N", "/", "A">>

\* the column a key of ex_dict is read from (lines 35-40)
ColumnOf(key) ==
    CASE key = "Question Prompt" -> <<"Q", "u", "e", "s", "t", "i", "o", "n", " ", "P", "r", "o", "m", "p", "t">>
      [] key = "Answer A" -> <<"A", "n", "s", "w", "e", "r", " ", "A">>
      [] key = "Answer B" -> <<"A", "n", "s", "w", "e", "r", " ", "B">>
      [] key = "Answer C" -> <<"A", "n", "s", "w", "e", "r", " ", "C">>
      [] key = "Answer D" -> <<"A", "n", "s", "w", "e", "r", " ", "D">>
      [] key = "Correct Answer" -> <<"C", "o", "r", "r", "e", "c", "t", " ", "A", "n", "s", "w", "e", "r">>

\* `name in bank.columns`
HasColumn(columns, name) == \E c \in 1..Len(columns) : columns[c] = name

\* row.get(name, default): the cell of the first column called `name`
Cell(columns, row, name, default) ==
    IF HasColumn(columns, name)
    THEN row[CHOOSE c \in 1..Len(columns) :
                columns[c] = name /\ \A d \in 1..(c - 1) : columns[d] # name]
    ELSE default

\* a comparison of the CEFR cell with the job's level that trims neither
CefrMatchesExact(cell, cefr) == cell = cefr

\* `.astype(str).str.strip() == str(job['cefr']).strip()` (line 22)
CefrMatches(cell, cefr) == Strip(cell) = Strip(cefr)

\* ex_dict of one sampled row (lines 34-41)
ExDict(columns, row) ==
    [key \in {"Question Prompt", "Answer A", "Answer B", "Answer C", "Answer D",
              "Correct Answer"} |-> Cell(columns, row, ColumnOf(key), NotAvailable)]

\* get_few_shot_examples: what it can return, as the list of the examples of
\* the returned block ("" is the empty list), together with example_banks as
\* the call leaves it
get_few_shot_examples(job, example_banks) ==
    LET key == TypeKey(job.type) IN
    IF key \notin DOMAIN example_banks
          \/ example_banks[key].rows = <<>> \/ example_banks[key].columns = <<>>
    THEN {[output |-> <<>>, example_banks |-> example_banks]}
    ELSE LET bank == example_banks[key]
             columns == [c \in 1..Len(bank.columns) |-> Strip(bank.columns[c])]
             banks_after == [example_banks EXCEPT ![key] = Bank(columns, bank.rows)]
             relevant ==
                 IF HasColumn(columns, CEFRRating)
                 THEN SelectSeq(bank.rows,
                         LAMBDA row : CefrMatches(Cell(columns, row, CEFRRating, None),
                                                  job.cefr))
                 ELSE bank.rows
             samples == IF Len(relevant) >= 2 THEN Samples(relevant, 2)
                        ELSE IF Len(bank.rows) >= 2 THEN Samples(bank.rows, 2)
                        ELSE {}
         IN  IF samples = {}
             THEN {[output |-> <<>>, example_banks |-> banks_after]}
             ELSE {[output |-> [n \in 1..2 |-> ExDict(columns, rows[n])],
                    example_banks |-> banks_after] : rows \in samples}

----------------------------------------------------------------------------
(* get_few_shot_examples on its own *)

LevelB1 == <<"B", "1">>
LevelB1Padded == <<"B", "1", " ">>
LevelA2 == <<"A", "2">>
CEFRRatingPadded == <<" ">> \o CEFRRating

\* the Question Prompt cell of row n: a text that tells the rows apart
RowMark(n) == <<<<"1">>, <<"2">>, <<"3">>, <<"4">>, <<"5">>>>[n]

\* banks with a CEFR column, its name clean or padded, and banks without
ExampleTables ==
    {Bank(<<name, ColumnOf("Question Prompt")>>,
          [n \in 1..Len(levels) |-> <<levels[n], RowMark(n)>>]) :
        name \in {CEFRRating, CEFRRatingPadded},
        levels \in ListsUpTo({LevelB1, LevelB1Padded, LevelA2}, MaxBankRows)}
    \cup {Bank(<<ColumnOf("Question Prompt")>>, [n \in 1..k |-> <<RowMark(n)>>]) :
              k \in 0..MaxBankRows}

\* a Grammar or Vocabulary job and a map that holds a grammar bank
FewShotCalls ==
    {[fn |-> "get_few_shot_examples",
      job |-> [job_id |-> 0, type |-> t, cefr |-> level],
      example_banks |-> ("grammar" :> bank)] :
        t \in QuestionTypes, level \in {LevelB1, LevelB1Padded},
        bank \in ExampleTables}

InitExamples == InitCall(FewShotCalls)

GetFewShotExamples ==
    /\ pc = "call"
    /\ call.fn = "get_few_shot_examples"
    /\ \E result \in get_few_shot_examples(call.job, call.example_banks) :
          Return(result)

NextExamples == GetFewShotExamples

SpecExamples == InitExamples /\ [][NextExamples]_vars

----------------------------------------------------------------------------
(* Properties *)

\* a Sequential Batch (3-Call) run has been started
SequentialRun == job_list # <<>> /\ job_list[1].strategy = SequentialBatch

\* the response of Stage k failed to parse or held no record array
StageFailed(k) ==
    k <= Len(llm_responses) /\ llm_responses[k] \in {"unparsable", "no array"}

\* the record array of Stage k was extracted
StageExtracted(k) == k <= Len(llm_responses) /\ llm_responses[k] = "array"

\* C1: in a Sequential Batch run, once the response of Stage k fails to parse
\* or its record array cannot be extracted, the handler has stopped, no call
\* of a later stage was issued, no FinalQuestion was assembled and an error
\* message is shown.
C1_StageFailureAborts ==
    SequentialRun =>
        \A k \in 1..3 :
            StageFailed(k) =>
                /\ pc = "done"
                /\ \A i \in 1..Len(llm_calls) : StageOf(llm_calls[i]) <= k
                /\ Len(llm_calls) = k
                /\ generated_questions = <<>>
                /\ last_batch = None
                /\ errors # <<>>

\* C1 witness: Stage 1 succeeded and the Stage 2 response held no array
C1_Witness ==
    /\ SequentialRun /\ pc = "done"
    /\ StageExtracted(1) /\ StageFailed(2) /\ llm_responses[2] = "no array"
    /\ Len(job_list) = 2

\* C2: in a Sequential Batch run the calls issued so far are Stage 1, Stage 2,
\* Stage 3 in that order, each at most once and at most three in all; the
\* call of Stage k+1 is there only if the response of Stage k was parsed and
\* its array extracted; a run that ends without a failed stage made exactly
\* three calls.
C2_OneCallPerStageInOrder ==
    SequentialRun =>
        /\ Len(llm_calls) <= 3
        /\ \A i \in 1..Len(llm_calls) : StageOf(llm_calls[i]) = i
        /\ \A i \in 2..Len(llm_calls) : StageExtracted(i - 1)
        /\ Len(llm_responses) <= Len(llm_calls)
        /\ (pc = "done" /\ \A k \in 1..Len(llm_responses) : llm_responses[k] = "array")
              => Len(llm_calls) = 3 /\ Len(llm_responses) = 3

\* C2 witness: a batch of two jobs ended after exactly three calls
C2_Witness ==
    /\ SequentialRun /\ pc = "done" /\ Len(job_list) = 2
    /\ Len(llm_calls) = 3 /\ StageExtracted(3)

\* C3 (as claimed): in a Sequential Batch run whose Stage 1 and Stage 3
\* responses carry records, a stage whose record array was extracted with a
\* length other than the number of jobs makes the run end with an error and
\* without any FinalQuestion.
C3_CountMismatchIsHardFailure ==
    (SequentialRun /\ pc = "done" /\ stage1_data_list # <<>> /\ stage3_data_list # <<>>) =>
        ((\/ StageExtracted(1) /\ Len(stage1_data_list) # Len(job_list)
          \/ StageExtracted(2) /\ Len(stage2_data_list) # Len(job_list)
          \/ StageExtracted(3) /\ Len(stage3_data_list) # Len(job_list))
            => errors # <<>> /\ generated_questions = <<>> /\ last_batch = None)

AnswersOf(q) == <<q["Answer A"], q["Answer B"], q["Answer C"], q["Answer D"]>>

\* the values of a 4-element list, as a set
Values(seq) == {seq[i] : i \in 1..Len(seq)}

\* C4: when the three stages of a Sequential Batch run succeeded, the rows
\* are min(len(Stage 1), len(Stage 3)) in number, row i carries the Item
\* Number and answer of Stage1Record i and the distractors of Stage3Record i,
\* and no error is shown for the indices that were skipped.
C4_OneRowPerMatchedIndex ==
    (SequentialRun /\ pc = "done" /\ StageExtracted(3)) =>
        /\ Len(generated_questions) = Min(Len(stage1_data_list), Len(stage3_data_list))
        /\ \A i \in 1..Len(generated_questions) :
              LET q == generated_questions[i]
                  s1 == stage1_data_list[i]
                  s3 == stage3_data_list[i]
              IN  /\ q["Item Number"] = s1["Item Number"]
                  /\ Values(AnswersOf(q)) =
                         {s1["Correct Answer"], s3["Selected Distractor A"],
                          s3["Selected Distractor B"], s3["Selected Distractor C"]}
        /\ errors = <<>>
        /\ (Len(stage1_data_list) = Len(job_list) /\ Len(stage3_data_list) = Len(job_list))
              => Len(generated_questions) = Len(job_list)

\* C4 witness: two Stage 1 records, one Stage 3 record, one row, no error
C4_Witness ==
    /\ SequentialRun /\ pc = "done" /\ StageExtracted(3)
    /\ Len(stage1_data_list) = 2 /\ Len(stage3_data_list) = 1
    /\ Len(generated_questions) = 1 /\ errors = <<>>
    /\ last_batch = generated_questions

\* the final assembly has run: alone, or at the end of a Sequential Batch run
Assembled ==
    \/ pc = "assembled"
    \/ SequentialRun /\ pc = "done" /\ StageExtracted(3)

Letters == {Text("A"), Text("B"), Text("C"), Text("D")}

\* the Answer field a letter names
AnswerAt(q, letter) ==
    CASE letter = Text("A") -> q["Answer A"]
      [] letter = Text("B") -> q["Answer B"]
      [] letter = Text("C") -> q["Answer C"]
      [] letter = Text("D") -> q["Answer D"]

\* the Correct Answer of a Stage1Record ("" when the key is missing)
AnswerOf(s1) == IF "Correct Answer" \in DOMAIN s1 THEN s1["Correct Answer"] ELSE <<>>

\* a Selected Distractor of a Stage3Record ("" when the key is missing)
DistractorOf(s3, key) == IF key \in DOMAIN s3 THEN s3[key] ELSE <<>>

\* C5: in every assembled row the Correct Answer field is one of the letters
\* A-D and the Answer field it names holds the Correct Answer of the
\* Stage1Record at the row's index.
C5_LetterNamesCorrectAnswer ==
    Assembled =>
        \A i \in 1..Len(generated_questions) :
            LET q == generated_questions[i] IN
            /\ q["Correct Answer"] \in Letters
            /\ AnswerAt(q, q["Correct Answer"]) = AnswerOf(stage1_data_list[i])

\* C5 witness: the shuffle moved a non-empty answer to position B, with
\* another value before it
C5_Witness ==
    /\ pc = "assembled" /\ Len(generated_questions) = 1
    /\ generated_questions[1]["Correct Answer"] = Text("B")
    /\ AnswerOf(stage1_data_list[1]) # <<>>
    /\ generated_questions[1]["Answer A"] # AnswerOf(stage1_data_list[1])

\* C6: in every assembled row Answer A-D are the three Selected Distractors
\* of the Stage3Record and the Correct Answer of the Stage1Record at the
\* row's index, in some order: same values, same multiplicities.
C6_AnswersArePermutation ==
    Assembled =>
        \A i \in 1..Len(generated_questions) :
            LET given == << DistractorOf(stage3_data_list[i], "Selected Distractor A"),
                            DistractorOf(stage3_data_list[i], "Selected Distractor B"),
                            DistractorOf(stage3_data_list[i], "Selected Distractor C"),
                            AnswerOf(stage1_data_list[i]) >>
                answers == AnswersOf(generated_questions[i])
            IN  \E p \in Perm4 : \A j \in 1..4 : answers[j] = given[p[j]]

\* C6 witness: four different values, the answer shuffled to the front
C6_Witness ==
    /\ pc = "assembled" /\ Len(generated_questions) = 1
    /\ Cardinality(Values(AnswersOf(generated_questions[1]))) = 4
    /\ generated_questions[1]["Answer A"] = AnswerOf(stage1_data_list[1])
    /\ generated_questions[1]["Answer D"] =
           DistractorOf(stage3_data_list[1], "Selected Distractor A")

\* C7 (as claimed): every row of a Sequential Batch run has four non-empty,
\* pairwise different Answer fields.
C7_FourDistinctNonEmptyAnswers ==
    (SequentialRun /\ pc = "done") =>
        \A i \in 1..Len(generated_questions) :
            LET answers == AnswersOf(generated_questions[i]) IN
            /\ \A j \in 1..4 : answers[j] # <<>>
            /\ \A j, k \in 1..4 : answers[j] = answers[k] => j = k

\* C8 (as claimed): for a non-empty Correct Answer, the Question Prompt is
\* the Complete Sentence with only the first occurrence of the answer
\* replaced, so it holds one blank marker when the answer occurs.
C8_OnlyFirstOccurrenceReplaced ==
    pc = "assembled" =>
        \A i \in 1..Len(generated_questions) :
            LET cs == stage1_data_list[i]["Complete Sentence"]
                ca == AnswerOf(stage1_data_list[i])
                prompt == generated_questions[i]["Question Prompt"]
            IN  ca # <<>> =>
                  /\ prompt = ReplaceCount(cs, ca, BlankMarker, 1)
                  /\ Contains(cs, ca) => CountOcc(prompt, BlankMarker) = 1

\* C9 (as claimed): every Stage1Record taken over from Stage 1 has its
\* Correct Answer inside its Complete Sentence, and every row's Question
\* Prompt holds the blank marker and differs from the Complete Sentence.
C9_AnswerOccursInSentence ==
    SequentialRun =>
        /\ \A i \in 1..Len(stage1_data_list) :
              Contains(stage1_data_list[i]["Complete Sentence"],
                       AnswerOf(stage1_data_list[i]))
        /\ \A i \in 1..Len(generated_questions) :
              /\ Contains(generated_questions[i]["Question Prompt"], BlankMarker)
              /\ generated_questions[i]["Question Prompt"] #
                     stage1_data_list[i]["Complete Sentence"]

\* the candidates a Stage2Record proposes
CandidatesOf(s2) == {s2[k] : k \in CandidateKeys \cap DOMAIN s2}

\* C10 (as claimed): the three distractors of every row of a Sequential
\* Batch run are candidates of the Stage2Record at the row's index.
C10_DistractorsAreCandidates ==
    (SequentialRun /\ pc = "done") =>
        \A i \in 1..Len(generated_questions) :
            /\ i <= Len(stage2_data_list)
            /\ \A key \in {"Selected Distractor A", "Selected Distractor B",
                             "Selected Distractor C"} :
                  DistractorOf(stage3_data_list[i], key) \in CandidatesOf(stage2_data_list[i])

\* C11: a press of Generate Batch that shows the empty-focus error ends the
\* handler at once: no job list and no LLM call exist in that run, and
\* last_batch, last_batch_strategy, the three stage tables and the execution
\* trace are what they were before the press.
C11_EmptyFocusChangesNothing ==
    [][(errors' # errors /\ errors' = <<FocusError>>) =>
          /\ pc' = "done"
          /\ job_list' = <<>>
          /\ llm_calls' = <<>>
          /\ UNCHANGED <<last_batch, last_batch_strategy, sequential_stage1_data,
                         sequential_stage2_data, sequential_stage3_data, debug_logs>>]_vars

\* C11 witness: the empty-focus error shown in a session that holds a batch,
\* its stage tables and its trace from an earlier run
C11_Witness ==
    /\ pc = "done" /\ errors = <<FocusError>>
    /\ job_list = <<>> /\ llm_calls = <<>>
    /\ last_batch # None /\ last_batch_strategy = SequentialBatch
    /\ sequential_stage1_data # None /\ sequential_stage3_data # None
    /\ debug_logs # <<>>

\* C12: for a batch size N and a non-empty focus selection the planner
\* returns N jobs, job i (counted from 0) has job_id i, so the job_ids are
\* distinct and are 0..N-1 in increasing order, and every job carries one
\* focus of the selection.
C12_PlannerReturnsNJobs ==
    (pc = "returned" /\ call.fn = "create_job_list") =>
        /\ Len(returned) = call.total_questions
        /\ \A i \in 1..Len(returned) : returned[i].job_id = i - 1
        /\ \A i, j \in 1..Len(returned) :
              returned[i].job_id = returned[j].job_id => i = j
        /\ {returned[i].job_id : i \in 1..Len(returned)} = 0..(call.total_questions - 1)
        /\ \A i \in 1..Len(returned) :
              \E k \in 1..Len(call.selected_focus_list) :
                 returned[i].focus = call.selected_focus_list[k]

\* C12 witness: two jobs planned from a selection of two foci
C12_Witness ==
    /\ pc = "returned" /\ call.fn = "create_job_list"
    /\ call.total_questions = 2 /\ Len(call.selected_focus_list) = 2
    /\ Len(returned) = 2 /\ returned[1].focus # returned[2].focus

\* the first character of s that is no whitespace
FirstVisible(s) == s[CHOOSE i \in 1..Len(s) : ~IsSpace(s[i]) /\ \A j \in 1..(i - 1) : IsSpace(s[j])]

\* s has a character that is no whitespace
HasVisible(s) == \E i \in 1..Len(s) : ~IsSpace(s[i])

\* the item is made of parenthesised parts and whitespace only
OnlyParenthesised(item) ==
    /\ HasVisible(item)
    /\ ~HasVisible(RemoveParenthesised(item))

\* C18 (as claimed): when the item, its parenthesised parts removed, has a
\* token, get_initial_letter returns the lower-cased first character of the
\* first token ("belong (to)" gives b, "add on" gives a); for an item that
\* consists only of parenthesised parts it returns one lower-case letter.
C18_InitialLetterIsLowerCaseLetter ==
    (pc = "returned" /\ call.fn = "get_initial_letter") =>
        LET item == call.vocab_item
            cleaned == RemoveParenthesised(item)
        IN  /\ HasVisible(cleaned) => returned = <<LowerChar(FirstVisible(cleaned))>>
            /\ item = BelongTo => returned = <<"b">>
            /\ item = AddOn => returned = <<"a">>
            /\ OnlyParenthesised(item) =>
                  Len(returned) = 1 /\ \E i \in 1..26 : returned[1] = LowerCase[i]

\* a helper has returned from the call named fn
Returned(fn) == pc = "returned" /\ call.fn = fn

\* the one-to-one assignments of the list positions `from` to `pool`
Injections(from, pool) ==
    {f \in [from -> pool] : \A i, j \in from : f[i] = f[j] => i = j}

\* the positions of the table rows whose Part of Speech equals pos and whose
\* Base Vocabulary Item differs from target, lower-cased and trimmed
PosPool(df, target, pos) ==
    {i \in 1..Len(df) :
        /\ Strip(Lower(df[i]["Part of Speech"])) = Strip(Lower(pos))
        /\ Strip(Lower(df[i]["Base Vocabulary Item"])) # Strip(Lower(target))}

\* C13: python_select_by_pos returns min(max, |P|) items, each the item of a
\* different row of P; none is the target, they are never more than max, and
\* exactly max when P has at least max rows.
C13_SelectByPosFromPool ==
    Returned("python_select_by_pos") =>
        LET df == call.vocab_df
            P == PosPool(df, call.target_vocab, call.target_pos)
        IN  /\ Len(returned) = Min(call.max_items, Cardinality(P))
            /\ \E f \in Injections(1..Len(returned), P) :
                  \A k \in 1..Len(returned) : returned[k] = df[f[k]]["Base Vocabulary Item"]
            /\ \A k \in 1..Len(returned) :
                  Strip(Lower(returned[k])) # Strip(Lower(call.target_vocab))
            /\ Len(returned) <= call.max_items
            /\ Cardinality(P) >= call.max_items => Len(returned) = call.max_items

\* C13 witness: the table holds the target in two spellings and more rows of
\* its part of speech than asked for; two of them were returned
C13_Witness ==
    /\ Returned("python_select_by_pos")
    /\ call.target_vocab = Fan /\ call.target_pos = NounPadded /\ call.max_items = 2
    /\ \E i, j \in 1..Len(call.vocab_df) :
          /\ call.vocab_df[i]["Base Vocabulary Item"] = Fan
          /\ call.vocab_df[j]["Base Vocabulary Item"] = FanPadded
    /\ Cardinality(PosPool(call.vocab_df, call.target_vocab, call.target_pos)) = 3
    /\ Len(returned) = 2

\* the target and the excluded items, lower-cased and trimmed
Excluded(target, exclude) ==
    {Strip(Lower(target))} \cup {Strip(Lower(exclude[i])) : i \in 1..Len(exclude)}

\* C14: python_select_by_initial_letter returns at most max items, none of
\* them the target or an item of the exclude list (lower-cased and trimmed).
C14_SelectByLetterExcludes ==
    Returned("python_select_by_initial_letter") =>
        /\ Len(returned) <= call.max_items
        /\ \A k \in 1..Len(returned) :
              Strip(Lower(returned[k])) \notin Excluded(call.target_vocab, call.exclude_items)

\* C14 witness: for "sun" the fallback added "cat" and "zip" from a table
\* that also holds the excluded "cup"
C14_Witness ==
    /\ Returned("python_select_by_initial_letter")
    /\ call.target_vocab = Sun /\ call.exclude_items = <<CupPadded>>
    /\ call.max_items = 2
    /\ \E i \in 1..Len(call.vocab_df) : call.vocab_df[i]["Base Vocabulary Item"] = Cup
    /\ returned = <<Cat, Zip>>

\* the positions of the eligible rows whose initial letter is `letter`
LetterPool(df, letter, target, exclude) ==
    {i \in 1..Len(df) :
        /\ get_initial_letter(df[i]["Base Vocabulary Item"]) = letter
        /\ Strip(Lower(df[i]["Base Vocabulary Item"])) \notin Excluded(target, exclude)}

\* the items at the positions `pool`, in table order
InTableOrder(df, pool) == ItemsOf(Pick(df, pool))

\* C15: with P the eligible rows of the target's initial letter: when P has
\* at least max rows the result is max items of different rows of P; else
\* the result begins with every item of P, continues with items of eligible
\* rows of the fallback letters, an item of a later fallback letter only
\* after every eligible row of the earlier ones, and has
\* min(max, |P| + eligible fallback rows) items.
C15_FallbackFillsUp ==
    Returned("python_select_by_initial_letter") =>
        LET df == call.vocab_df
            letter == get_initial_letter(call.target_vocab)
            P == LetterPool(df, letter, call.target_vocab, call.exclude_items)
            letters == get_phonetic_similar_letters(letter)
            F(n) == LetterPool(df, letters[n], call.target_vocab, call.exclude_items)
            fallback == UNION {F(n) : n \in 1..Len(letters)}
            LetterNo(i) == CHOOSE n \in 1..Len(letters) : i \in F(n)
            rest == (Cardinality(P) + 1)..Len(returned)
        IN  IF Cardinality(P) >= call.max_items
            THEN /\ Len(returned) = call.max_items
                 /\ \E f \in Injections(1..Len(returned), P) :
                       \A k \in 1..Len(returned) :
                          returned[k] = df[f[k]]["Base Vocabulary Item"]
            ELSE /\ Len(returned) =
                       Min(call.max_items, Cardinality(P) + Cardinality(fallback))
                 /\ SubSeq(returned, 1, Cardinality(P)) = InTableOrder(df, P)
                 /\ \E f \in Injections(rest, fallback) :
                       /\ \A k \in rest : returned[k] = df[f[k]]["Base Vocabulary Item"]
                       /\ \A k, m \in rest : k <= m => LetterNo(f[k]) <= LetterNo(f[m])
                       /\ \A k \in rest : \A n \in 1..(LetterNo(f[k]) - 1) :
                             F(n) \subseteq {f[m] : m \in rest}

\* C15 witness: for "cat" the table holds "cup" and "kit"; the result is the
\* same-letter item followed by the fallback item
C15_Witness ==
    /\ Returned("python_select_by_initial_letter")
    /\ call.target_vocab = Cat /\ call.exclude_items = <<>> /\ call.max_items = 2
    /\ returned = <<Cup, Kit>>

\* the first word of the item begins with `prefix`, whatever the case
BeginsWith(item, prefix) == StartsWith(Lower(get_first_word(item)), prefix)

\* the positions of the eligible rows whose item begins with `prefix`
PrefixPool(df, prefix, target, exclude) ==
    {i \in 1..Len(df) :
        /\ BeginsWith(df[i]["Base Vocabulary Item"], prefix)
        /\ Strip(Lower(df[i]["Base Vocabulary Item"])) \notin Excluded(target, exclude)}

\* how many items of the list begin with `prefix`
CountBeginning(list, prefix) == Cardinality({k \in 1..Len(list) : BeginsWith(list[k], prefix)})

\* C16 (as claimed): when the same-letter pool P is smaller than max, a
\* target beginning with f gets the remainder filled with eligible items
\* beginning with "ph", and a target beginning with "ph" gets it filled
\* with eligible items beginning with f.
C16_PhoneticFAndPhBothWays ==
    Returned("python_select_by_initial_letter") =>
        LET df == call.vocab_df
            target == call.target_vocab
            P == LetterPool(df, get_initial_letter(target), target, call.exclude_items)
            remainder == call.max_items - Cardinality(P)
            Filled(prefix) ==
                CountBeginning(returned, prefix) =
                    Min(remainder, Cardinality(PrefixPool(df, prefix, target, call.exclude_items)))
        IN  remainder > 0 =>
              /\ (BeginsWith(target, <<"f">>) => Filled(<<"p", "h">>))
              /\ (BeginsWith(target, <<"p", "h">>) => Filled(<<"f">>))

\* C17: in every entry of the vocabulary-list Stage 2 composer the
\* POS-selected and Letter-selected lists share no item and hold no target
\* (lower-cased and trimmed), each has at most 4 items, and Needed from LLM
\* is 8 minus the number of selected items and not negative.
C17_DualSelectionAddsUpToEight ==
    Returned("create_vocab_list_stage2_prompt") =>
        /\ Len(returned.input) = Len(call.job_list)
        /\ \A n \in 1..Len(returned.input) :
              LET entry == returned.input[n]
                  pos_list == entry["POS-selected"]
                  letter_list == entry["Letter-selected"]
                  target == Strip(Lower(call.job_list[n].target_vocabulary))
              IN  /\ \A i \in 1..Len(pos_list), j \in 1..Len(letter_list) :
                        Strip(Lower(pos_list[i])) # Strip(Lower(letter_list[j]))
                  /\ \A i \in 1..Len(pos_list) : Strip(Lower(pos_list[i])) # target
                  /\ \A j \in 1..Len(letter_list) : Strip(Lower(letter_list[j])) # target
                  /\ Len(pos_list) <= 4 /\ Len(letter_list) <= 4
                  /\ entry["Needed from LLM"] = 8 - (Len(pos_list) + Len(letter_list))
                  /\ entry["Needed from LLM"] >= 0
                  /\ entry["Total from vocab list"] + entry["Needed from LLM"] = 8

\* C17 witness: five rows of the target's part of speech, four of them
\* POS-selected, and the fifth found again by the letter selection
C17_Witness ==
    /\ Returned("create_vocab_list_stage2_prompt")
    /\ call.job_list[1].target_vocabulary = Sun
    /\ Cardinality(PosPool(call.vocabulary_list_df, Sun, call.job_list[1].part_of_speech)) = 5
    /\ Len(returned.input[1]["POS-selected"]) = 4
    /\ Len(returned.input[1]["Letter-selected"]) = 1
    /\ returned.input[1]["Needed from LLM"] = 3

\* C19 (as claimed): after a call of get_few_shot_examples the example
\* banks are what they were before it: same rows, same column names, same
\* cells.
C19_BankNotMutated ==
    Returned("get_few_shot_examples") => returned.example_banks = call.example_banks

\* the rows of the bank of the job's type, none when there is no such bank
BankRows == 
    IF TypeKey(call.job.type) \in DOMAIN call.example_banks
    THEN call.example_banks[TypeKey(call.job.type)].rows ELSE <<>>

\* the positions of the bank rows whose CEFR rating, trimmed, is the job's
\* level, trimmed; the column is found by its trimmed name
RowsOfLevel ==
    IF TypeKey(call.job.type) \notin DOMAIN call.example_banks THEN {}
    ELSE LET bank == call.example_banks[TypeKey(call.job.type)] IN
         {n \in 1..Len(bank.rows) :
             \E c \in 1..Len(bank.columns) :
                /\ Strip(bank.columns[c]) = CEFRRating
                /\ Strip(bank.rows[n][c]) = Strip(call.job.cefr)}

\* the returned block shows the bank rows at positions m and n, in that order
ShowsRows(m, n) ==
    /\ Len(returned.output) = 2
    /\ returned.output[1]["Question Prompt"] = RowMark(m)
    /\ returned.output[2]["Question Prompt"] = RowMark(n)

\* C20: the block holds two different rows of the job's level when the bank
\* of the job's type has at least two such rows; else two different rows of
\* that bank when it has at least two rows; else it is empty.  It never
\* holds exactly one example.
C20_TwoExamplesOrNone ==
    Returned("get_few_shot_examples") =>
        /\ Len(returned.output) # 1
        /\ IF Cardinality(RowsOfLevel) >= 2
           THEN \E m, n \in RowsOfLevel : m # n /\ ShowsRows(m, n)
           ELSE IF Len(BankRows) >= 2
           THEN \E m, n \in 1..Len(BankRows) : m # n /\ ShowsRows(m, n)
           ELSE returned.output = <<>>

\* C20 witness: the job's level is written with a trailing blank, the bank
\* has one row of another level, and the block shows the two rows of the
\* job's level, the later one first
C20_Witness ==
    /\ Returned("get_few_shot_examples")
    /\ call.job.cefr = LevelB1Padded
    /\ Len(BankRows) = 3 /\ RowsOfLevel = {2, 3}
    /\ ShowsRows(3, 2)

----------------------------------------------------------------------------
(* The session over several runs *)

\* a batch run (Generate Batch with a focus selected) has ended
BatchRunEnded == pc = "done" /\ job_list # <<>>

\* C21: when a batch run has ended, however it ended, last_batch,
\* last_batch_strategy and the three stage tables hold nothing that an
\* earlier run of the session stored: each was assigned by this run or by
\* no run at all.
C21_SessionOverwrittenWholesale ==
    BatchRunEnded => \A k \in SessionKeys : written_by[k] \in {0, run}

\* the positions of the execution trace that hold the entry `msg`
TracePositions(msg) == {i \in 1..Len(debug_logs) : debug_logs[i][1] = msg}

\* the stage-transition entries of a Sequential Batch run, in pipeline order
StageMarkers ==
    << "--- STAGE 1: SENTENCE GENERATION ---",
       "--- STAGE 2: CANDIDATE GENERATION ---",
       "--- STAGE 3: VALIDATION & FILTERING ---",
       "--- FINAL ASSEMBLY ---" >>

\* the trace holds entries of the run in progress (or just ended) only: a
\* Sequential Batch run's trace starts with that run's header and holds no
\* second header, the trace of another strategy's run holds no header
TraceOfThisRunOnly ==
    job_list # <<>> =>
        IF job_list[1].strategy = SequentialBatch
        THEN /\ Len(debug_logs) >= Len(SequentialHeader(job_list))
             /\ SubSeq(debug_logs, 1, Len(SequentialHeader(job_list))) = SequentialHeader(job_list)
             /\ Cardinality(TracePositions("NEW SEQUENTIAL BATCH MODE - STARTING")) = 1
        ELSE TracePositions("NEW SEQUENTIAL BATCH MODE - STARTING") = {}

\* every stage marker occurs at most once, a later stage's marker after the
\* earlier stage's, and only when every earlier stage's response gave an array
StageEntriesInOrder ==
    \A k \in 1..4 :
        /\ Cardinality(TracePositions(StageMarkers[k])) <= 1
        /\ TracePositions(StageMarkers[k]) # {} =>
              \A j \in 1..(k - 1) :
                 /\ \E a \in TracePositions(StageMarkers[j]) :
                       \A b \in TracePositions(StageMarkers[k]) : a < b
                 /\ job_list # <<>> => (j <= Len(llm_responses) /\ llm_responses[j] = "array")

\* the trace entry that records the message shown with st.error
RecordedInTrace(e) ==
    \E i \in 1..Len(debug_logs) :
        \/ debug_logs[i][1] = e[1]
        \/ e[1] = "Error" /\ debug_logs[i][1] = "CRITICAL EXCEPTION"

\* C22: the execution trace holds entries of the most recent batch run only;
\* in a Sequential Batch run its stage entries appear in the order Stage 1,
\* Stage 2, Stage 3, Final Assembly, a stage's entry only after every
\* earlier stage succeeded; and every error that stopped the run is in the
\* trace as well as on the page.
C22_TraceOfLastRunInOrderWithErrors ==
    /\ TraceOfThisRunOnly
    /\ StageEntriesInOrder
    /\ (BatchRunEnded /\ job_list[1].strategy = SequentialBatch) =>
          \A i \in 1..Len(errors) : RecordedInTrace(errors[i])

\* the run in progress stored nothing in the session
NothingStoredByThisRun == \A k \in SessionKeys : written_by[k] # run

\* C23: once a call to the LLM has raised, the run is over: the raise is
\* the last exchange and every call made has its response (no call follows),
\* the error is the last message shown and the exception is in the execution
\* trace, and last_batch, like every other result key of the session, was not
\* assigned by this run, whatever the run had generated before the raise.
C23_RaiseIsFatal ==
    (\E i \in 1..Len(llm_responses) : llm_responses[i] = "raised") =>
        /\ pc = "done"
        /\ llm_responses[Len(llm_responses)] = "raised"
        /\ Len(llm_calls) = Len(llm_responses)
        /\ \A i \in 1..(Len(llm_responses) - 1) : llm_responses[i] # "raised"
        /\ errors # <<>> /\ errors[Len(errors)] = Err("Error", 0)
        /\ TracePositions("CRITICAL EXCEPTION") # {}
        /\ NothingStoredByThisRun

\* C23 witness: the second Holistic job's call raises after the first job
\* produced a question, in a session that holds the batch of an earlier run
C23_Witness ==
    /\ pc = "done"
    /\ job_list # <<>> /\ job_list[1].strategy = Holistic
    /\ llm_responses = <<"object", "raised">>
    /\ generated_questions # <<>>
    /\ run = 2 /\ written_by["last_batch"] = 1 /\ last_batch # None

----------------------------------------------------------------------------
(* The per-job strategies *)

\* the positions of the calls made with one of `composers`
CallsOf(composers) ==
    SelectSeq([i \in 1..Len(llm_calls) |-> i], LAMBDA i : llm_calls[i].composer \in composers)

\* the job ids of the calls made with one of `composers`, in call order
CalledJobs(composers) ==
    [k \in 1..Len(CallsOf(composers)) |-> llm_calls[CallsOf(composers)[k]].input[1]]

\* the positions of the calls made with one of `composers` whose response parsed
ParsedCallsOf(composers) ==
    SelectSeq(CallsOf(composers), LAMBDA i : i <= Len(llm_responses) /\ llm_responses[i] = "object")

\* the job ids of those calls, in call order
ParsedJobs(composers) ==
    [k \in 1..Len(ParsedCallsOf(composers)) |-> llm_calls[ParsedCallsOf(composers)[k]].input[1]]

\* a Holistic or Segmented run has ended and no call raised
PerJobRunEnded ==
    /\ BatchRunEnded
    /\ job_list[1].strategy \in {Holistic, Segmented}
    /\ \A i \in 1..Len(llm_responses) : llm_responses[i] # "raised"

\* C24: when a Holistic or Segmented run has ended without a raise, every
\* job was sent to the LLM once, in job order, whatever the earlier jobs'
\* responses were; the questions generated (and stored as the last batch when
\* there is one) are those of the jobs whose final response parsed, in job
\* order; and in Segmented mode a stem call directly follows the parsed
\* options response of the same job and exists for no other job.
C24_PerJobFailureSkipsTheJobOnly ==
    PerJobRunEnded =>
        LET segmented == job_list[1].strategy = Segmented
            first == IF segmented THEN {"options"} ELSE {"holistic"}
            final == IF segmented THEN {"stem"} ELSE {"holistic"}
        IN  /\ CalledJobs(first) = [i \in 1..Len(job_list) |-> job_list[i].job_id]
            /\ [k \in 1..Len(generated_questions) |-> generated_questions[k]["Item Number"]]
                  = ParsedJobs(final)
            /\ generated_questions # <<>> => last_batch = generated_questions
            /\ \A i \in 1..Len(llm_calls) :
                  /\ llm_calls[i].composer = "stem" =>
                        /\ i > 1 /\ llm_calls[i - 1].composer = "options"
                        /\ llm_calls[i - 1].input = llm_calls[i].input
                        /\ llm_responses[i - 1] = "object"
                  /\ (llm_calls[i].composer = "options" /\ llm_responses[i] = "object") =>
                        /\ i < Len(llm_calls) /\ llm_calls[i + 1].composer = "stem"
            /\ CalledJobs({"stem"}) = ParsedJobs({"options"})

\* C24 witness: a Segmented run of two jobs in which the options response of
\* the first job did not parse and the second job gave the only question
C24_Witness ==
    /\ PerJobRunEnded
    /\ job_list[1].strategy = Segmented /\ Len(job_list) = 2
    /\ llm_responses = <<"unparsable", "object", "object">>
    /\ CalledJobs({"options", "stem"}) = <<job_list[1].job_id, job_list[2].job_id, job_list[2].job_id>>
    /\ generated_questions = <<QuestionData(job_list[2])>>
    /\ last_batch = generated_questions

----------------------------------------------------------------------------
(* The Stage 1 composer on its own (prompt_engineer.py:664-792) *)

GrammaticalRule == "GRAMMATICAL EXCLUSIVITY RULE (for grammar distinction questions)"
SemanticRule == "SEMANTIC EXCLUSIVITY RULE (for vocabulary questions)"

\* a flag set for any Grammar job whose focus holds "vs" in lower case only
has_grammar_distinction_case_sensitive(jobs) ==
    \E i \in 1..Len(jobs) :
        jobs[i].type = "Grammar" /\ Contains(jobs[i].focus, <<"v", "s">>)

\* `if job['type'] == 'Grammar' and 'vs' in job['focus'].lower()` (lines 693-694)
has_grammar_distinction(jobs) ==
    \E i \in 1..Len(jobs) :
        jobs[i].type = "Grammar" /\ Contains(Lower(jobs[i].focus), <<"v", "s">>)

\* `if job['type'] == 'Vocabulary'` (lines 695-696)
has_vocabulary(jobs) ==
    \E i \in 1..Len(jobs) : jobs[i].type = "Vocabulary"

\* constraint_instruction (lines 699-728): the rules appended, in order
constraint_instruction(jobs) ==
    (IF has_grammar_distinction(jobs) THEN <<GrammaticalRule>> ELSE <<>>)
    \o (IF has_vocabulary(jobs) THEN <<SemanticRule>> ELSE <<>>)

\* user_msg of create_sequential_batch_stage1_prompt (lines 730-790): the
\* count asked for, the job specifications and the constraint instruction
stage1_user_msg(jobs) ==
    [n |-> Len(jobs),
     job_specs |-> [i \in 1..Len(jobs) |->
                       [job_id |-> jobs[i].job_id, cefr |-> jobs[i].cefr,
                        type |-> jobs[i].type, focus |-> jobs[i].focus,
                        topic |-> jobs[i].context]],
     constraint_instruction |-> constraint_instruction(jobs)]

\* foci as text: with "vs" in lower case, in upper case, in mixed case inside
\* a word, with the two letters apart, in the other order, and without them
FocusVs == <<"a", " ", "v", "s", " ", "b">>
FocusVS == <<"A", " ", "V", "S", " ", "B">>
FocusInWord == <<"a", "V", "s", "b">>
FocusApart == <<"v", " ", "s">>
FocusReversed == <<"s", "v">>
FocusPlain == <<"a">>
FocusTexts == {FocusVs, FocusVS, FocusInWord, FocusApart, FocusReversed, FocusPlain}

\* job lists of up to MaxJobs jobs, of either type and any of the foci
Stage1PromptCalls ==
    UNION {{[fn |-> "create_sequential_batch_stage1_prompt",
             job_list |-> [i \in 1..n |->
                              [job_id |-> i - 1, cefr |-> "B1", type |-> t[i],
                               focus |-> f[i], context |-> "General",
                               strategy |-> SequentialBatch]]] :
               t \in [1..n -> QuestionTypes], f \in [1..n -> FocusTexts]} :
           n \in 1..MaxJobs}

InitStage1Prompt == InitCall(Stage1PromptCalls)

CreateStage1Prompt ==
    /\ pc = "call"
    /\ call.fn = "create_sequential_batch_stage1_prompt"
    /\ Return(stage1_user_msg(call.job_list))

NextStage1Prompt == CreateStage1Prompt

SpecStage1Prompt == InitStage1Prompt /\ [][NextStage1Prompt]_vars

\* the focus holds a "v" directly followed by an "s", in either case
HoldsVs(focus) ==
    \E i \in 1..(Len(focus) - 1) : focus[i] \in {"v", "V"} /\ focus[i + 1] \in {"s", "S"}

\* the rules a returned Stage 1 prompt holds
RulesOf(prompt) ==
    {prompt.constraint_instruction[i] : i \in 1..Len(prompt.constraint_instruction)}

\* C25: the Stage 1 prompt holds the grammatical-exclusivity rule exactly
\* when some job of the batch is a Grammar job whose focus holds "vs" in any
\* case, and the semantic-exclusivity rule exactly when some job is a
\* Vocabulary job; it holds no rule twice and no other rule, so a batch with
\* neither kind of job gets none.
C25_ExclusivityRulesFollowTheJobs ==
    (pc = "returned" /\ call.fn = "create_sequential_batch_stage1_prompt") =>
        LET jobs == call.job_list IN
        /\ GrammaticalRule \in RulesOf(returned) <=>
              \E i \in 1..Len(jobs) : jobs[i].type = "Grammar" /\ HoldsVs(jobs[i].focus)
        /\ SemanticRule \in RulesOf(returned) <=>
              \E i \in 1..Len(jobs) : jobs[i].type = "Vocabulary"
        /\ RulesOf(returned) \subseteq {GrammaticalRule, SemanticRule}
        /\ Len(returned.constraint_instruction) = Cardinality(RulesOf(returned))

\* C25 witness: a Grammar job without "vs" and a Grammar job with "VS" give
\* the grammatical rule alone
C25_Witness ==
    /\ pc = "returned" /\ call.fn = "create_sequential_batch_stage1_prompt"
    /\ Len(call.job_list) = 2
    /\ call.job_list[1].type = "Grammar" /\ call.job_list[1].focus = FocusPlain
    /\ call.job_list[2].type = "Grammar" /\ call.job_list[2].focus = FocusVS
    /\ returned.constraint_instruction = <<GrammaticalRule>>

----------------------------------------------------------------------------
(* The Sequential Batch branch on any planned job list *)

\* job['type'] as the handler may find it in a job: the two types of the
\* selectbox and one the handler has no composer for
JobTypes == QuestionTypes \cup {"Listening"}

\* the job lists the handler is run on: test_planner is not part of the
\* sources, so every list of Sequential Batch jobs is taken, of one type or mixed
PlannedJobLists ==
    UNION {{[i \in 1..n |->
                [job_id |-> i - 1, cefr |-> "B1", type |-> t[i],
                 focus |-> "Past Simple vs. Present Perfect",
                 context |-> "General", strategy |-> SequentialBatch]] :
               t \in [1..n -> JobTypes]} :
           n \in 1..MaxJobs}

\* the first batch run of a session at line 451: the jobs are planned, the
\* trace holds the header and the Stage 1 call is out
InitSequential ==
    /\ last_batch = None
    /\ last_batch_strategy = NoStrategy
    /\ sequential_stage1_data = None
    /\ sequential_stage2_data = None
    /\ sequential_stage3_data = None
    /\ job_list \in PlannedJobLists
    /\ debug_logs = SequentialHeader(job_list)
    /\ pc = "stage1"
    /\ index = 1
    /\ stage1_data_list = <<>>
    /\ stage2_data_list = <<>>
    /\ stage3_data_list = <<>>
    /\ generated_questions = <<>>
    /\ llm_calls = CallLLM(<<>>, create_sequential_batch_stage1_prompt(job_list))
    /\ llm_responses = <<>>
    /\ errors = <<>>
    /\ call = <<>>
    /\ returned = <<>>
    /\ run = 1
    /\ written_by = NeverWritten

\* the responses of these runs: no JSON, or the stage's key with one record
\* per job, all alike
UniformResponses(records, jobs) ==
    {Garbage} \cup {[shape |-> "keyed", arr |-> [i \in 1..Len(jobs) |-> r]] : r \in records}

Stage1Answers == \E raw \in UniformResponses(Stage1Records, job_list) : Stage1Response(raw)
Stage2Answers == \E raw \in UniformResponses(Stage2Records, job_list) : Stage2Response(raw)
Stage3Answers == \E raw \in UniformResponses(Stage3Records, job_list) : Stage3Response(raw)

NextSequential ==
    \/ Stage1Answers
    \/ Stage2Answers
    \/ Stage3Answers
    \/ LLMRaises

SpecSequential == InitSequential /\ [][NextSequential]_vars

\* the composers of the calls made for stage k, in call order
ComposersOfStage(k) ==
    [j \in 1..Len(SelectSeq(llm_calls, LAMBDA c : StageOf(c) = k)) |->
        SelectSeq(llm_calls, LAMBDA c : StageOf(c) = k)[j].composer]

\* C26: in a Sequential Batch run every Stage 2 and Stage 3 call is composed
\* by the composers of the first job's type, whatever the types of the other
\* jobs: the grammar composers when it is Grammar, the vocabulary composers
\* when it is Vocabulary; with any other first type no Stage 2 or Stage 3
\* call is ever made, and once Stage 1 has given its array the run is over
\* with the unknown-type error.
C26_ComposersFollowFirstJob ==
    (job_list # <<>> /\ job_list[1].strategy = SequentialBatch) =>
        LET question_type == job_list[1].type IN
        /\ question_type = "Grammar" =>
              /\ ComposersOfStage(2) \in {<<>>, <<"sequential_batch_stage2_grammar">>}
              /\ ComposersOfStage(3) \in {<<>>, <<"sequential_batch_stage3_grammar">>}
        /\ question_type = "Vocabulary" =>
              /\ ComposersOfStage(2) \in {<<>>, <<"sequential_batch_stage2_vocabulary">>}
              /\ ComposersOfStage(3) \in {<<>>, <<"sequential_batch_stage3_vocabulary">>}
        /\ question_type \notin {"Grammar", "Vocabulary"} =>
              /\ ComposersOfStage(2) = <<>> /\ ComposersOfStage(3) = <<>>
              /\ (llm_responses # <<>> /\ llm_responses[1] = "array") =>
                    /\ pc = "done"
                    /\ errors = <<Err("Unknown question type", 2)>>
                    /\ Len(llm_calls) = 1

\* C26 witness: a Vocabulary job followed by a Grammar job, sent through
\* all three stages with the vocabulary composers
C26_Witness ==
    /\ pc = "done" /\ Len(job_list) = 2
    /\ job_list[1].type = "Vocabulary" /\ job_list[2].type = "Grammar"
    /\ ComposersOfStage(2) = <<"sequential_batch_stage2_vocabulary">>
    /\ ComposersOfStage(3) = <<"sequential_batch_stage3_vocabulary">>
    /\ llm_responses = <<"array", "array", "array">>

----------------------------------------------------------------------------
(* Clear Debug Logs *)

\* C27: a press of Clear Debug Logs (the only step that takes entries out of
\* the execution trace while the page is at rest) leaves the trace empty
\* and last_batch, last_batch_strategy and the three stage tables as they were.
C27_ClearDebugLogsClearsTraceOnly ==
    [][(pc' = "idle" /\ debug_logs' # debug_logs) =>
          /\ debug_logs' = <<>>
          /\ UNCHANGED <<last_batch, last_batch_strategy, sequential_stage1_data,
                         sequential_stage2_data, sequential_stage3_data>>]_vars

\* C27 witness: the trace is empty although the latest run, a Sequential
\* Batch run (whose trace is never empty), stored its batch and stage tables
C27_Witness ==
    /\ pc = "idle" /\ debug_logs = <<>>
    /\ run >= 1 /\ written_by["last_batch"] = run
    /\ last_batch # None /\ last_batch_strategy = SequentialBatch
    /\ sequential_stage1_data # None /\ sequential_stage3_data # None

----------------------------------------------------------------------------
(* The Stage 3 composers on their own *)

Stage3Composers ==
    {"create_sequential_batch_stage3_grammar_prompt",
     "create_sequential_batch_stage3_vocabulary_prompt",
     "create_vocab_list_stage3_prompt"}

\* job lists of 1..MaxJobs jobs of either level, with the Stage 1 and
\* Stage 2 lists of any length up to MaxRecs, equal to the job count or not
Stage3PromptCalls ==
    UNION {{[fn |-> f,
             job_list |-> [i \in 1..n |->
                              [job_id |-> i - 1, cefr |-> c[i], type |-> "Vocabulary",
                               focus |-> "Meaning-in-Sentence (Inference)",
                               context |-> "General", strategy |-> SequentialBatch]],
             stage1_outputs |-> s1,
             stage2_outputs |-> s2] :
               f \in Stage3Composers, c \in [1..n -> {"A2", "B1"}],
               s1 \in ListsUpTo(Stage1Records, MaxRecs),
               s2 \in ListsUpTo(Stage2Records, MaxRecs)} :
           n \in 1..MaxJobs}

InitStage3Prompt == InitCall(Stage3PromptCalls)

CreateStage3Prompt ==
    /\ pc = "call"
    /\ call.fn \in Stage3Composers
    /\ Return(CASE call.fn = "create_sequential_batch_stage3_grammar_prompt" ->
                     create_sequential_batch_stage3_grammar_prompt(
                         call.job_list, call.stage1_outputs, call.stage2_outputs)
                [] call.fn = "create_sequential_batch_stage3_vocabulary_prompt" ->
                     create_sequential_batch_stage3_vocabulary_prompt(
                         call.job_list, call.stage1_outputs, call.stage2_outputs)
                [] OTHER ->
                     create_vocab_list_stage3_prompt(
                         call.job_list, call.stage1_outputs, call.stage2_outputs))

NextStage3Prompt == CreateStage3Prompt

SpecStage3Prompt == InitStage3Prompt /\ [][NextStage3Prompt]_vars

\* the candidate keys a Stage 3 composer copies
CopiedCandidates(fn) ==
    IF fn = "create_vocab_list_stage3_prompt" THEN CandidateKeysOfList ELSE CandidateKeys

\* C28: a Stage 3 composer returns for every combination of list lengths;
\* its validation input has min(jobs, Stage 1 records, Stage 2 records)
\* entries, entry j holding the CEFR of job j, the sentence and answer of
\* Stage1Record j and the candidates of Stage2Record j, and the prompt asks
\* for len(job_list) validated sets.
C28_ValidationInputStopsAtShortest ==
    /\ (pc = "call" /\ call.fn \in Stage3Composers) => ENABLED CreateStage3Prompt
    /\ (pc = "returned" /\ call.fn \in Stage3Composers) =>
          LET jobs == call.job_list
              s1 == call.stage1_outputs
              s2 == call.stage2_outputs
              m == Min(Len(jobs), Min(Len(s1), Len(s2)))
          IN  /\ Len(returned.input) = m
              /\ returned.n = Len(jobs)
              /\ \A j \in 1..m :
                    /\ returned.input[j]["CEFR"] = jobs[j].cefr
                    /\ returned.input[j]["Complete Sentence"] = Get(s1[j], "Complete Sentence", EmptyText)
                    /\ returned.input[j]["Correct Answer"] = Get(s1[j], "Correct Answer", EmptyText)
                    /\ \A k \in CopiedCandidates(call.fn) :
                          returned.input[j][k] = Get(s2[j], k, EmptyText)

\* C28 witness: two jobs, two Stage1Records and one Stage2Record give a
\* validation input of one entry in a prompt that asks for two sets
C28_Witness ==
    /\ pc = "returned" /\ call.fn = "create_sequential_batch_stage3_vocabulary_prompt"
    /\ Len(call.job_list) = 2
    /\ call.stage1_outputs = <<Stage1Good, Stage1Bad>>
    /\ call.stage2_outputs = <<Stage2Three>>
    /\ Len(returned.input) = 1 /\ returned.n = 2
    /\ returned.input[1]["Candidate D"] = EmptyText

----------------------------------------------------------------------------
(* The phonetic fallback table *)

\* the fallback letters of a letter
FallbackLetters(letter) ==
    {get_phonetic_similar_letters(letter)[i] :
        i \in 1..Len(get_phonetic_similar_letters(letter))}

\* the keys the table can be asked for: every letter, and "ph"
TableLetters == {<<LowerCase[i]>> : i \in 1..26} \cup {<<"p", "h">>}

\* C30: when a selection by initial letter has returned, the table it fell
\* back on is symmetric: b is a fallback letter of a exactly when a is a
\* fallback letter of b, in particular for the target's own initial letter.
C30_PhoneticTableSymmetric ==
    Returned("python_select_by_initial_letter") =>
        /\ \A b \in FallbackLetters(get_initial_letter(call.target_vocab)) :
              get_initial_letter(call.target_vocab) \in FallbackLetters(b)
        /\ \A a, b \in TableLetters : b \in FallbackLetters(a) <=> a \in FallbackLetters(b)

----------------------------------------------------------------------------
(* The stored batch and its stage tables *)

StageTableKeys ==
    {"sequential_stage1_data", "sequential_stage2_data", "sequential_stage3_data"}

\* last_batch and last_batch_strategy are both unset, or both set, by one run
BatchAndStrategyOfOneRun ==
    \/ /\ last_batch = None /\ last_batch_strategy = NoStrategy
       /\ written_by["last_batch"] = 0 /\ written_by["last_batch_strategy"] = 0
    \/ /\ last_batch # None /\ last_batch_strategy # NoStrategy
       /\ written_by["last_batch"] # 0
       /\ written_by["last_batch_strategy"] = written_by["last_batch"]

\* C29: in every state of a session, last_batch and last_batch_strategy are
\* both unset or were both assigned by the same run, and whenever the stored
\* strategy is "Sequential Batch (3-Call)" the three stage tables were
\* assigned by the run that assigned last_batch.
C29_StoredBatchAndTablesOfOneRun ==
    /\ BatchAndStrategyOfOneRun
    /\ last_batch_strategy = SequentialBatch =>
          \A k \in StageTableKeys : written_by[k] = written_by["last_batch"]

====
